---- MODULE Spec2Model ----
(***************************************************************************)
(* Model of the code-verification engine (tools/code_verifier.py), of the  *)
(* benchmark driver loop that calls it (evaluate_livecodebench.py) and of  *)
(* the dataset deduplicator (scripts/dedup_datasets.py).                   *)
(*                                                                         *)
(* The grader is a sequential program that runs untrusted candidate code   *)
(* under a one-shot SIGALRM timer.  The candidate and the timer are the    *)
(* environment: while candidate code runs it may finish with any outcome,  *)
(* decide to loop forever, and the alarm may fire; the raised              *)
(* TimeoutException is an ordinary Exception that the candidate's own      *)
(* except-clauses may swallow.  The grader's own statements are taken to   *)
(* be fast: the alarm fires only while candidate code is executing.        *)
(***************************************************************************)
EXTENDS Integers, Sequences, FiniteSets, TLC

\* ------------------------------------------------------------------ bounds
NItems == 2      \* grading tasks handed to compute_accuracy
MaxTests == 2    \* test cases per problem
MaxCalls == 3    \* calls of run_test when one fixed triple is followed

\* ------------------------------------------------- result codes (Python)
PASS == 1                \* True  (bool is an int in Python: True == 1)
FAIL == 0                \* False
AMBIG == 2               \* a comparison result whose truth value raises (ndarray)
WRONG_ANSWER == -2
TIME_LIMIT == -3
ORCHESTRATION == -4
NO_CODE == -100
COMPILE_ERROR == -200
RUNTIME_ERROR == -300

FatalCodes == {WRONG_ANSWER, TIME_LIMIT, ORCHESTRATION, COMPILE_ERROR, RUNTIME_ERROR}

VARIABLES
    pc,          \* control position of the driver / grader
    idx,         \* compute_accuracy: number of items graded so far
    records,     \* compute_accuracy: response entries (correctness flags)
    prob,        \* the problem record handed to run_test
    k,           \* index of the test case in flight (0-based)
    res,         \* all_results of the runner
    ret,         \* what run_test handed back: kind, results, metadata
    alarm,       \* the process-wide SIGALRM timer: "off" or "armed"
    cand,        \* candidate code: "idle", "run" (executing), "spin" (never ends)
    ran,         \* indices of the test cases whose execution was started
    fired,       \* phase in which the alarm went off during this run_test
    compileExc,  \* an Exception was raised by the compilation step
    judge,       \* check_correctness: "none", "true", "false", "raised"
    beat,        \* flips with every round of a candidate loop that never ends
    penv,        \* interpreter state candidates can read and write: 0 untouched, 1 altered
    tracked,     \* the fixed (problem, generation, timeout) triple that is followed
    firstRes,    \* history: what the first call on the followed triple returned
    report,      \* results_json of compute_accuracy
    guard,       \* what reliability_guard has done to the process so far
    dpc,         \* control position of the deduplicator
    data,        \* deduplicate: the dataset handed in
    exact,       \* result of deduplicate_exact: deduplicated list, duplicates
    texts,       \* deduplicate_near: index -> normalized text (keys of minhashes)
    link,        \* the LSH index: pairs of keys that share a bucket
    duplicates,  \* deduplicate_near: indices marked as near-duplicates
    checked,     \* deduplicate_near: checked_pairs
    qi,          \* deduplicate_near: index of the record being queried
    todo,        \* candidates of the current query not yet visited
    near,        \* result of deduplicate_near: deduplicated list, duplicates
    cause,       \* history: <<d, o>> when d was marked in the comparison with o
    result,      \* what deduplicate returned
    again,       \* result of deduplicate_exact applied to its own output
    lsh,         \* self.lsh of the instance: key -> text whose signature was inserted
    calls,       \* number of deduplicate calls started on the instance
    streams,     \* what sys.stdout, sys.stdin and builtins.open currently are
    saved,       \* the streams saved on entry of the last stdin-based test case
    cpc,         \* control position of combine
    qfile,       \* the lines of the problems file
    gfile,       \* the lines of the generation files, in the order of the paths
    cpos,        \* combine: number of lines / generations consumed by the current loop
    questions,   \* combine: the loaded problems
    combined,    \* combine: combined_results, question_id -> generation text (0: none)
    generations, \* combine: the loaded generations
    collected,   \* combine: all_collected
    warned,      \* positions of the generation lines skipped with a message
    mpc,         \* control position of the closing part of compute_accuracy
    manifest,    \* whether data/livecodebench_split.json exists
    recs,        \* compute_accuracy: the response entries (qid, correctness)
    months,      \* the split manifest: month -> identifiers of its problems
    mp,          \* compute_accuracy: identifier -> number of correct entries
    N,           \* compute_accuracy: generations per problem
    A,           \* running sum of corrects since the last period entry
    B,           \* running sum of totals since the last period entry
    pending,     \* the months the loop has still to visit, sorted
    results_json \* the report under construction

gvars == <<pc, idx, records, prob, k, res, ret, alarm, cand, ran, fired, compileExc, judge, beat,
          penv, tracked, firstRes, report, guard, streams, saved>>
dvars == <<dpc, data, exact, texts, link, duplicates, checked, qi, todo, near, cause, result,
          again, lsh, calls>>
cvars == <<cpc, qfile, gfile, cpos, questions, combined, generations, collected, warned>>
mvars == <<mpc, manifest, recs, months, mp, N, A, B, pending, results_json>>
vars == <<pc, idx, records, prob, k, res, ret, alarm, cand, ran, fired, compileExc, judge, beat,
          penv, tracked, firstRes, report, guard, streams, saved,
          dpc, data, exact, texts, link, duplicates, checked, qi, todo, near, cause, result,
          again, lsh, calls,
          cpc, qfile, gfile, cpos, questions, combined, generations, collected, warned,
          mpc, manifest, recs, months, mp, N, A, B, pending, results_json>>

\* ---------------------------------------------------------------- metadata
NoMeta == [type |-> "none", keys |-> {}, code |-> 0]

\* a plain description string (run_test lines 574, 577, 593, 629, 644)
StrMeta == [type |-> "str", keys |-> {}, code |-> 0]

TimeMeta == [type |-> "dict", keys |-> {"execution time"}, code |-> 0]

WAMeta == [type |-> "dict",
           keys |-> {"inputs", "output", "expected", "error_code", "error_message"},
           code |-> WRONG_ANSWER]

\* a failure bundle that forgets the test's input
ErrMetaNoInputs(c) == [type |-> "dict",
                       keys |-> {"error", "error_code", "error_message", "expected"},
                       code |-> c]

ErrMeta(c) == [type |-> "dict",
               keys |-> {"error", "error_code", "error_message", "inputs", "expected"},
               code |-> c]

NoRet == [kind |-> "none", results |-> <<>>, meta |-> NoMeta]

\* ---------------------------------------------------------------- problems
Problems ==
    [mode : {"call", "stdin"},       \* starter_code non-empty / empty
     think : BOOLEAN,                \* "</think>" occurs in the generation
     blocks : {0, 1},                \* fenced python blocks found: none / some
     parse : BOOLEAN,                \* extract_functions parses the blocks
     load : {"inline", "file", "filefail"},  \* how input_output is resolved
     outs : {"ok", "bad"},           \* expected outputs parse as JSON / literal
     ntests : 0..MaxTests]

NoProb == [mode |-> "call", think |-> FALSE, blocks |-> 0, parse |-> FALSE,
           load |-> "inline", outs |-> "ok", ntests |-> 0]

Last(s) == s[Len(s)]

\* ------------------------------------------- a candidate that is followed
\* compile_code line 241 and call_method line 220 run the candidate inside the
\* grading process: the namespace of its module is fresh, everything else it
\* can reach (imported modules and their attributes, the decimal context,
\* numpy's print options, builtins) is shared by all calls and is reset
\* neither by run_test nor by reliability_guard.  A followed candidate is
\* deterministic: it compiles, finishes each test case in time, and what it
\* answers is a function of that state alone, which it only reads.
NoTracked == [kind |-> "none", prob |-> NoProb, beh |-> [e \in {0, 1} |-> "pass"],
              header |-> <<>>, io |-> <<>>]

\* Two such candidates for a stdin-based problem with one test case: one
\* whose answer does not depend on the shared state, and one that prints the
\* expected text while the state is untouched and another text once altered.
TrackedSet ==
    [kind : {"followed"},
     prob : {p \in Problems : /\ p.mode = "stdin" /\ p.think /\ p.blocks = 1 /\ p.parse
                              /\ p.load = "inline" /\ p.outs = "ok" /\ p.ntests = 1},
     beh : {[e \in {0, 1} |-> "pass"],
            [e \in {0, 1} |-> IF e = 0 THEN "pass" ELSE "wrong"]},
     header : {<<>>},
     io : {<<>>}]

\* --------------------------------------------- the end-to-end scenario
\* A string is a sequence of one-character strings.
\* sub occurs in s at position i
OccursAt(s, sub, i) == i + Len(sub) - 1 <= Len(s) /\ SubSeq(s, i, i + Len(sub) - 1) = sub

\* position of the first occurrence of sub in s, 0 when there is none
Find(s, sub) ==
    IF \E i \in 1..Len(s) : OccursAt(s, sub, i)
      THEN CHOOSE i \in 1..Len(s) :
               OccursAt(s, sub, i) /\ \A j \in 1..(i - 1) : ~OccursAt(s, sub, j)
      ELSE 0

\* s.split(sep)[0]
SplitFirst(s, sep) == IF Find(s, sep) = 0 THEN s ELSE SubSeq(s, 1, Find(s, sep) - 1)

\* what follows the first occurrence of sep in s (sep occurs in s)
AfterFirst(s, sep) == SubSeq(s, Find(s, sep) + Len(sep), Len(s))

\* s.split(sep)[1] for an s in which sep occurs
SplitSecond(s, sep) == SplitFirst(AfterFirst(s, sep), sep)

\* the characters that str.strip and str.split take for blanks
Whitespace == {" ", "\n", "\t", "\r"}

RECURSIVE LStrip(_)
LStrip(t) == IF t # <<>> /\ Head(t) \in Whitespace THEN LStrip(Tail(t)) ELSE t

RECURSIVE RStrip(_)
RStrip(t) == IF t # <<>> /\ t[Len(t)] \in Whitespace THEN RStrip(SubSeq(t, 1, Len(t) - 1)) ELSE t

\* str.strip
Strip(t) == RStrip(LStrip(t))

\* get_starter_code
GetStarterCode(header_str) ==
    IF Find(header_str, <<"d", "e", "f", " ">>) # 0
      THEN Strip(SplitFirst(SplitSecond(header_str, <<"d", "e", "f">>), <<"(">>))
      ELSE header_str

\* the name a Python parser reads in the signature "def name(...)": the
\* function that a correct generation defines
DeclaredName(header_str) ==
    Strip(SplitFirst(AfterFirst(header_str, <<"d", "e", "f", " ">>), <<"(">>))

\* starter_code fields of the problems file: def add(a), def f(a),
\* def undef(a), def defer(a)
Headers ==
    { <<"d", "e", "f", " ", "a", "d", "d", "(", "a", ")">>,
      <<"d", "e", "f", " ", "f", "(", "a", ")">>,
      <<"d", "e", "f", " ", "u", "n", "d", "e", "f", "(", "a", ")">>,
      <<"d", "e", "f", " ", "d", "e", "f", "e", "r", "(", "a", ")">> }

\* combine lines 93-98 and run_test lines 582-589 for a problem with header h
\* and n inline test pairs whose generation holds one fenced block that
\* defines the declared function correctly (th: the generation also holds
\* "</think>").  The driver calls fn_name; an empty fn_name makes the problem
\* stdin-based, where the block prints nothing; calling a name the block does
\* not define raises NameError.
E2ETask(h, th, n) ==
    LET fn_name == GetStarterCode(h)
        outcome == IF fn_name = <<>> THEN "wrong"
                   ELSE IF fn_name = DeclaredName(h) THEN "pass"
                   ELSE "nameerror"
    IN  [kind |-> "e2e",
         prob |-> [mode |-> IF fn_name = <<>> THEN "stdin" ELSE "call",
                   think |-> th, blocks |-> 1, parse |-> TRUE,
                   load |-> "inline", outs |-> "ok", ntests |-> n],
         beh |-> [e \in {0, 1} |-> outcome],
         header |-> h,
         io |-> <<>>]

E2ESet == {E2ETask(h, th, n) : h \in Headers, th \in BOOLEAN, n \in 1..MaxTests}

\* ------------------------------------- return values and expected outputs
\* A Python value is a record [t, v]: an int (v its value), a float (v its
\* value in units of 10^-7), a str (v its characters), None, a list or a tuple
\* (v the elements), or a numpy array of ints with at least two elements.
UNIT == 10000000

PyInt(n) == [t |-> "int", v |-> n]

PyFloat(u) == [t |-> "float", v |-> u]

PyStr(cs) == [t |-> "str", v |-> cs]

PyNone == [t |-> "none", v |-> 0]

PyList(xs) == [t |-> "list", v |-> xs]

PyTuple(xs) == [t |-> "tuple", v |-> xs]

NdArray(xs) == [t |-> "array", v |-> xs]

IsNum(a) == a.t \in {"int", "float"}

\* the number an int or a float stands for, in units of 10^-7
NumVal(a) == IF a.t = "int" THEN a.v * UNIT ELSE a.v

\* a == b for values other than arrays: numbers compare by value, a list
\* never equals a tuple, sequences compare element by element
RECURSIVE PyEq(_, _)
PyEq(a, b) ==
    IF IsNum(a) /\ IsNum(b) THEN NumVal(a) = NumVal(b)
    ELSE IF a.t # b.t THEN FALSE
    ELSE IF a.t \in {"list", "tuple"}
      THEN /\ Len(a.v) = Len(b.v)
           /\ \A i \in 1..Len(a.v) : PyEq(a.v[i], b.v[i])
    ELSE a.v = b.v

\* json.dumps raises TypeError on an ndarray
RECURSIVE Serializable(_)
Serializable(a) ==
    /\ a.t # "array"
    /\ a.t \in {"list", "tuple"} => \A i \in 1..Len(a.v) : Serializable(a.v[i])

\* what json.dumps keeps of a value: tuples are written as lists, 3 and 3.0
\* are written differently
RECURSIVE JsonDumps(_)
JsonDumps(a) ==
    IF a.t \in {"list", "tuple"}
      THEN [t |-> "list", v |-> [i \in 1..Len(a.v) |-> JsonDumps(a.v[i])]]
      ELSE a

Digits == <<"0", "1", "2", "3", "4", "5", "6", "7", "8", "9">>

\* int(cs) for a non-empty string of digits
RECURSIVE ParseDigits(_)
ParseDigits(cs) ==
    IF cs = <<>> THEN 0
    ELSE 10 * ParseDigits(SubSeq(cs, 1, Len(cs) - 1)) + (CHOOSE d \in 1..10 : Digits[d] = cs[Len(cs)]) - 1

\* float(a): [ok, val]; ok is FALSE where float raises (None, a list, a
\* tuple, an array of several elements, a string that is no number).  The
\* strings considered hold digits and letters only.
ToFloat(a) ==
    IF IsNum(a) THEN [ok |-> TRUE, val |-> NumVal(a)]
    ELSE IF a.t = "str" /\ a.v # <<>> /\ \A i \in 1..Len(a.v) : \E d \in 1..10 : Digits[d] = a.v[i]
      THEN [ok |-> TRUE, val |-> ParseDigits(a.v) * UNIT]
    ELSE [ok |-> FALSE, val |-> 0]

Abs(x) == IF x < 0 THEN -x ELSE x

\* np.allclose(x, y) with rtol = 1e-05 and atol = 1e-08 on two numbers given
\* in units of 10^-7: |x - y| <= atol + rtol * |y|, times 10^12
AllClose(x, y) ==
    /\ Abs(x - y) <= 20000
    /\ Abs(x - y) * 100000 <= 10000 + Abs(y)

\* len(a) is defined
Sized(a) == a.t \in {"list", "tuple", "str", "array"}

\* a[i], 1-based
Item(a, i) == IF a.t = "str" THEN PyStr(<<a.v[i]>>) ELSE a.v[i]

\* the loop of lines 373-377 from index i on: "raised" when float() raises
\* before a mismatch is seen
RECURSIVE ElementLoop(_, _, _)
ElementLoop(p, g, i) ==
    IF i > Len(p.v) THEN "matched"
    ELSE LET x == ToFloat(Item(p, i))
             y == ToFloat(Item(g, i))
         IN  IF ~x.ok \/ ~y.ok THEN "raised"
             ELSE IF ~AllClose(x.val, y.val) THEN "unmatched"
             ELSE ElementLoop(p, g, i + 1)

\* x or y for a tmp_result x in {"true", "false", "array"}: the truth value
\* of an array of several elements raises ValueError; y is "raised" when
\* its evaluation raises, and a raise leaves tmp_result as it was
OrElse(x, y) ==
    IF x = "array" \/ x = "true" THEN x
    ELSE IF y = "raised" THEN x
    ELSE y

Bool(b) == IF b THEN "true" ELSE "false"

\* grade_call_based lines 355-380: tmp_result after the cascade
Cascade(prediction, gt_out) ==
    LET p == IF prediction.t = "tuple" THEN PyList(prediction.v) ELSE prediction
        t0 == IF p.t = "array" THEN "array" ELSE Bool(PyEq(p, gt_out))
        t1 == OrElse(t0, IF Serializable(p) /\ Serializable(gt_out)
                           THEN Bool(JsonDumps(p) = JsonDumps(gt_out))
                           ELSE "raised")
        t2 == OrElse(t1, IF ToFloat(p).ok /\ ToFloat(gt_out).ok
                           THEN Bool(AllClose(ToFloat(p).val, ToFloat(gt_out).val))
                           ELSE "raised")
        t3 == IF p.t # "list" THEN t2
              ELSE IF ~Sized(gt_out) THEN t2
              ELSE IF Len(p.v) # Len(gt_out.v) THEN t2
              ELSE OrElse(t2, LET m == ElementLoop(p, gt_out, 1)
                              IN  IF m = "raised" THEN m ELSE Bool(m = "matched"))
    IN  t3

\* a comparison that knows direct equality only
CallVerdictStrict(prediction, gt_out) ==
    IF prediction.t # "array" /\ PyEq(prediction, gt_out) THEN "pass" ELSE "wrong"

\* lines 385-394 and 395-417: a true tmp_result goes on to the next test
\* case, a false one is a wrong answer, and "not tmp_result" raises on an
\* array that was already appended
CallVerdict(prediction, gt_out) ==
    LET t == Cascade(prediction, gt_out)
    IN  IF t = "true" THEN "pass" ELSE IF t = "false" THEN "wrong" ELSE "ambig"

\* return values of candidates
CallPredictions ==
    { PyTuple(<<PyInt(1), PyInt(2)>>),
      PyList(<<PyInt(1), PyInt(2)>>),
      PyList(<<PyInt(1), PyInt(2), PyInt(3)>>),
      PyList(<<PyInt(2), PyInt(1)>>),
      PyList(<<PyFloat(UNIT + 1), PyInt(2)>>),
      PyTuple(<<PyFloat(UNIT + 1), PyInt(2)>>),
      PyList(<<PyTuple(<<PyInt(1), PyInt(2)>>)>>),
      PyList(<<PyStr(<<"a">>), PyInt(1)>>),
      PyList(<<PyInt(2), PyStr(<<"a">>)>>),
      PyList(<<>>),
      PyFloat(3 * UNIT + 1),
      PyFloat(3 * UNIT),
      PyFloat(3 * UNIT + 1000),
      PyInt(3),
      PyStr(<<"3">>),
      PyStr(<<"a">>),
      PyNone,
      NdArray(<<1, 2>>) }

\* expected outputs, which json.loads produced: no tuples, no arrays
CallExpected ==
    { PyList(<<PyInt(1), PyInt(2)>>),
      PyList(<<PyInt(1), PyInt(2), PyInt(4)>>),
      PyList(<<PyInt(1), PyInt(2), PyInt(3)>>),
      PyList(<<PyList(<<PyInt(1), PyInt(2)>>)>>),
      PyList(<<PyStr(<<"a">>), PyInt(1)>>),
      PyList(<<>>),
      PyFloat(3 * UNIT),
      PyInt(3),
      PyStr(<<"3">>),
      PyStr(<<"1", "2">>),
      PyStr(<<>>),
      PyNone }

\* an array meets the expected values for which == on it is the same in
\* every numpy version: lists of its length, numbers and None
CallPairs ==
    {io \in [prediction : CallPredictions, gt_out : CallExpected] :
        io.prediction.t = "array" =>
            \/ io.gt_out.t \in {"int", "float", "none"}
            \/ io.gt_out.t = "list" /\ Len(io.gt_out.v) = Len(io.prediction.v)}

\* a call-based problem with one inline test case whose expected output is
\* io.gt_out and whose candidate returns io.prediction
CascadeSet ==
    {[kind |-> "cascade",
      prob |-> [mode |-> "call", think |-> TRUE, blocks |-> 1, parse |-> TRUE,
                load |-> "inline", outs |-> "ok", ntests |-> 1],
      beh |-> [e \in {0, 1} |-> "pass"],
      header |-> <<>>,
      io |-> <<io>>] : io \in CallPairs}

\* ----------------------------------------- captured output and expected text
\* s.split(c) for a one-character separator c
RECURSIVE SplitOn(_, _)
SplitOn(s, c) ==
    IF Find(s, <<c>>) = 0 THEN <<s>>
    ELSE <<SubSeq(s, 1, Find(s, <<c>>) - 1)>>
           \o SplitOn(SubSeq(s, Find(s, <<c>>) + 1, Len(s)), c)

\* get_stripped_lines
GetStrippedLines(val) ==
    LET ls == SplitOn(Strip(val), "\n")
    IN  [i \in 1..Len(ls) |-> Strip(ls[i])]

\* line.split(): the maximal runs of non-blank characters
RECURSIVE Words(_)
Words(line) ==
    LET t == LStrip(line)
        n == IF \E i \in 1..Len(t) : t[i] \in Whitespace
               THEN CHOOSE i \in 1..Len(t) :
                        t[i] \in Whitespace /\ \A j \in 1..(i - 1) : t[j] \notin Whitespace
               ELSE Len(t) + 1
    IN  IF t = <<>> THEN <<>>
        ELSE <<SubSeq(t, 1, n - 1)>> \o Words(SubSeq(t, n, Len(t)))

\* convert_line_to_decimals
ConvertLineToDecimals(line) ==
    LET ws == Words(line)
    IN  IF \A i \in 1..Len(ws) : ToFloat(PyStr(ws[i])).ok
          THEN [success |-> TRUE, line |-> [i \in 1..Len(ws) |-> ToFloat(PyStr(ws[i])).val]]
          ELSE [success |-> FALSE, line |-> <<>>]

\* lines 513-550 for one pair of stripped lines: the loop continues
LineMatches(p, g) ==
    IF p = g THEN TRUE
    ELSE LET dp == ConvertLineToDecimals(p)
             dg == ConvertLineToDecimals(g)
         IN  IF ~dp.success \/ ~dg.success THEN FALSE
             ELSE IF dp.line = dg.line THEN TRUE
             ELSE /\ Len(dp.line) = Len(dg.line)
                  /\ \A i \in 1..Len(dp.line) : AllClose(dp.line[i], dg.line[i])

\* the loop of lines 506-550 over zip(lp, lg) from pair i on; compared counts
\* the pairs of lines that were looked at
RECURSIVE LineLoop(_, _, _)
LineLoop(lp, lg, i) ==
    IF i > Len(lp) \/ i > Len(lg) THEN [verdict |-> "pass", compared |-> i - 1]
    ELSE IF LineMatches(lp[i], lg[i]) THEN LineLoop(lp, lg, i + 1)
    ELSE [verdict |-> "wrong", compared |-> i]

\* a comparison without the check of line 501
StdioCompareZip(prediction, gt_out) ==
    LineLoop(GetStrippedLines(prediction), GetStrippedLines(gt_out), 1)

\* grade_stdio lines 489-551 for one test case
StdioCompare(prediction, gt_out) ==
    LET lp == GetStrippedLines(prediction)
        lg == GetStrippedLines(gt_out)
    IN  IF Len(lp) # Len(lg)
          THEN [verdict |-> "wrong", compared |-> 0]
          ELSE LineLoop(lp, lg, 1)

\* what candidates print
StdioPredictions ==
    { <<"4", "\n", "5", "\n">>,
      <<"4", "\n", "5", "\n", "6", "\n">>,
      <<" ", "4", "\n", "5", " ", "\n", "\n">>,
      <<"4", "\n", "6">>,
      <<>>,
      <<"0", "4", "\n", "5">>,
      <<"4", "\n", "\n", "5">> }

\* expected outputs of test cases
StdioExpected ==
    { <<"4", "\n", "5", "\n">>,
      <<"4", "\n", "5", "\n", "6">> }

\* a stdin-based problem with n inline test cases; on test case i the
\* candidate prints io[i].prediction and io[i].gt_out is expected
StdioSet ==
    UNION {{[kind |-> "stdio",
             prob |-> [mode |-> "stdin", think |-> TRUE, blocks |-> 1, parse |-> TRUE,
                       load |-> "inline", outs |-> "ok", ntests |-> n],
             beh |-> [e \in {0, 1} |-> "pass"],
             header |-> <<>>,
             io |-> io] : io \in [1..n -> [prediction : StdioPredictions,
                                           gt_out : StdioExpected]]} : n \in 1..MaxTests}

\* what the followed candidate does on test case k
FollowedOutcome ==
    IF tracked.kind = "cascade"
      THEN CallVerdict(tracked.io[k + 1].prediction, tracked.io[k + 1].gt_out)
    ELSE IF tracked.kind = "stdio"
      THEN StdioCompare(tracked.io[k + 1].prediction, tracked.io[k + 1].gt_out).verdict
    ELSE tracked.beh[penv]

\* the grading tasks that combine hands to the loop
Tasks == IF tracked.kind \in {"none", "followed"} THEN Problems ELSE {tracked.prob}

\* the call in flight is a call on the followed triple
Followed == tracked.kind # "none" /\ prob = tracked.prob

\* generation_list handed to compute_accuracy: its length
Items == IF tracked.kind = "none" THEN NItems ELSE MaxCalls

\* ------------------------------------------------------------------- Init
\* ------------------------------------------------------ the execution guard
\* some of the names that reliability_guard sets to None (lines 680-724)
EntryPoints ==
    {"builtins.quit", "os.kill", "os.system", "os.remove", "os.rename", "os.fork",
     "os.chdir", "shutil.rmtree", "shutil.move", "subprocess.Popen", "builtins.help"}

\* the modules whose sys.modules entry is set to None (lines 728-732)
BlockedModules == {"ipdb", "joblib", "resource", "psutil", "tkinter"}

\* reliability_guard(maximum_memory_bytes): with a byte budget it first
\* imports resource (line 662), which raises ImportError once the entry in
\* sys.modules is None; then the assignments of lines 675-732
ReliabilityGuard(g, mem) ==
    IF mem = "budget" /\ "resource" \in g.blocked
      THEN [g EXCEPT !.raised = TRUE]
      ELSE [disabled |-> g.disabled \cup EntryPoints,
            blocked |-> g.blocked \cup BlockedModules,
            limit |-> (g.limit \/ mem = "budget"),
            raised |-> g.raised]

\* the interpreter's own sys.stdout, sys.stdin and builtins.open
EnvStreams == [stdout |-> "stdout", stdin |-> "stdin", open |-> "open"]

\* inside a stdin-based test case: the StringIO of Capturing (line 113), the
\* StringIO(inputs) and the mock_open of call_method (lines 211-212)
Patched == [stdout |-> "capture", stdin |-> "replay", open |-> "mock"]

\* what the candidate may have assigned to the three names while it ran
Tampered(cur) ==
    {cur, [cur EXCEPT !.stdout = "own"], [cur EXCEPT !.stdin = "own"],
     [cur EXCEPT !.open = "own"]}

\* a test case that puts nothing back
Unrestored(sv, cur) == cur

\* Capturing.__exit__ (line 121) and the exits of the patch decorators put
\* back what they saved on entry, whatever the names hold by then
Restored(sv, cur) == sv

NoReport == [total_questions |-> 0, correct_answers |-> 0, accuracy |-> <<0, 1>>]

GBase ==
    /\ pc = "loop"
    /\ idx = 0
    /\ records = <<>>
    /\ prob = NoProb
    /\ k = 0
    /\ res = <<>>
    /\ ret = NoRet
    /\ alarm = "off"
    /\ cand = "idle"
    /\ ran = {}
    /\ fired = "none"
    /\ compileExc = FALSE
    /\ judge = "none"
    /\ beat = 0
    /\ penv = 0
    /\ firstRes = NoRet
    /\ report = NoReport
    /\ guard = [disabled |-> {}, blocked |-> {}, limit |-> FALSE, raised |-> FALSE]
    /\ streams = EnvStreams
    /\ saved = EnvStreams

GInit == GBase /\ tracked = NoTracked

NoStage == [deduplicated |-> <<>>, duplicates |-> {}]

NoResult == [kind |-> "none"]

DIdle ==
    /\ dpc = "idle"
    /\ data = <<>>
    /\ exact = NoStage
    /\ texts = <<>>
    /\ link = {}
    /\ duplicates = {}
    /\ checked = {}
    /\ qi = 0
    /\ todo = {}
    /\ near = NoStage
    /\ cause = {}
    /\ result = NoResult
    /\ again = NoStage
    /\ lsh = <<>>
    /\ calls = 0

\* combine is not running
CIdle ==
    /\ cpc = "idle"
    /\ qfile = <<>>
    /\ gfile = <<>>
    /\ cpos = 0
    /\ questions = <<>>
    /\ combined = <<>>
    /\ generations = <<>>
    /\ collected = <<>>
    /\ warned = {}

EmptyJson ==
    [overall |-> NoReport, monthly_results |-> <<>>,
     period_results |-> <<>>, version_results |-> <<>>]

\* compute_accuracy is not in its closing part
MIdle ==
    /\ mpc = "idle"
    /\ manifest = "missing"
    /\ recs = <<>>
    /\ months = <<>>
    /\ mp = <<>>
    /\ N = 0
    /\ A = 0
    /\ B = 0
    /\ pending = <<>>
    /\ results_json = EmptyJson

Init == GInit /\ DIdle /\ CIdle /\ MIdle

\* --------------------------------------------------- run_test exit paths
\* run_test returns before the dispatch (lines 574, 577, 593): no alarm call
\* is on this path
ReturnEarly(results, meta) ==
    /\ pc' = "rt_ret"
    /\ ret' = [kind |-> "ret", results |-> results, meta |-> meta]
    /\ res' = results
    /\ UNCHANGED <<alarm, cand>>

\* an exception leaves run_test before the dispatch (lines 598-608)
EscapeEarly(kind) ==
    /\ pc' = "rt_ret"
    /\ ret' = [kind |-> kind, results |-> <<>>, meta |-> NoMeta]
    /\ res' = res
    /\ UNCHANGED <<alarm, cand>>

\* a return that runs no signal.alarm(0)
ReturnNoCleanup(results, meta) ==
    /\ pc' = "rt_ret"
    /\ ret' = [kind |-> "ret", results |-> results, meta |-> meta]
    /\ res' = results
    /\ cand' = "idle"
    /\ UNCHANGED alarm

\* run_test returns (results, metadata) from inside the dispatch; the finally
\* clauses of lines 630 and 645 (and those of compile_code and the runners)
\* leave the alarm disarmed.
Return(results, meta) ==
    /\ pc' = "rt_ret"
    /\ ret' = [kind |-> "ret", results |-> results, meta |-> meta]
    /\ res' = results
    /\ alarm' = "off"
    /\ cand' = "idle"

\* an exception leaves run_test from inside the dispatch, through the same
\* finally clauses: kind "exc" (an Exception) or "exit" (SystemExit, a
\* BaseException that no "except Exception" clause catches)
Escape(kind) ==
    /\ pc' = "rt_ret"
    /\ ret' = [kind |-> kind, results |-> <<>>, meta |-> NoMeta]
    /\ res' = res
    /\ alarm' = "off"
    /\ cand' = "idle"

\* ------------------------------------------------------------- the driver
\* compute_accuracy's loop head: the next item goes through update_results
\* and check_correctness into run_test.
Iterate ==
    /\ pc = "loop"
    /\ idx < Items
    /\ \E p \in Tasks : prob' = p
    /\ pc' = "rt_start"
    /\ k' = 0
    /\ res' = <<>>
    /\ ret' = NoRet
    /\ ran' = {}
    /\ fired' = "none"
    /\ compileExc' = FALSE
    /\ judge' = "none"
    /\ UNCHANGED <<idx, records, alarm, cand, beat>>
    /\ UNCHANGED <<penv, tracked, firstRes, report, guard, streams, saved>>
    /\ UNCHANGED dvars
    /\ UNCHANGED cvars
    /\ UNCHANGED mvars

\* run_test lines 561-618/634: guard, code extraction, loading of the test
\* pairs, and the first signal.alarm(timeout) before the dispatch.
RunTestPrologue ==
    /\ pc = "rt_start"
    /\ IF ~prob.think \/ prob.blocks = 0
         THEN ReturnEarly(<<NO_CODE>>, StrMeta)
       ELSE IF prob.mode = "call" /\ ~prob.parse
         THEN ReturnEarly(<<COMPILE_ERROR>>, StrMeta)
       ELSE IF prob.load = "filefail" /\ prob.ntests > 0
         THEN EscapeEarly("exc")
       ELSE /\ pc' = "grade"
            /\ alarm' = "armed"
            /\ UNCHANGED <<ret, res, cand>>
    /\ UNCHANGED <<idx, records, prob, k, ran, fired, compileExc, judge, beat>>
    /\ guard' = ReliabilityGuard(guard, "none")
    /\ UNCHANGED <<penv, tracked, firstRes, report, streams, saved>>
    /\ UNCHANGED dvars
    /\ UNCHANGED cvars
    /\ UNCHANGED mvars

\* grade_call_based lines 293-328 (parsing of the expected outputs; the
\* third fallback raises ValueError) / grade_stdio lines 433-436.
GradePrep ==
    /\ pc = "grade"
    /\ IF prob.mode = "call" /\ prob.outs = "bad" /\ prob.ntests > 0
         THEN Return(<<ORCHESTRATION>>, StrMeta)
       ELSE IF prob.mode = "call" /\ prob.ntests = 0
         THEN Return(<<>>, TimeMeta)
       ELSE /\ pc' = "compile"
            /\ UNCHANGED <<ret, res, alarm, cand>>
    /\ UNCHANGED <<idx, records, prob, k, ran, fired, compileExc, judge, beat>>
    /\ UNCHANGED <<penv, tracked, firstRes, report, guard, streams, saved>>
    /\ UNCHANGED dvars
    /\ UNCHANGED cvars
    /\ UNCHANGED mvars

\* compile_code line 238-241: arm the alarm and exec the prepared source.
CompileStart ==
    /\ pc = "compile"
    /\ pc' = "compiling"
    /\ alarm' = "armed"
    /\ cand' = "run"
    /\ UNCHANGED <<idx, records, prob, k, res, ret, ran, fired, compileExc, judge, beat>>
    /\ UNCHANGED <<penv, tracked, firstRes, report, guard, streams, saved>>
    /\ UNCHANGED dvars
    /\ UNCHANGED cvars
    /\ UNCHANGED mvars

\* what the loop of the runner does after the compilation step / a passed
\* test: call-based recompiles the driver for every test case (line 335),
\* stdin-based compiles once (line 438).
AfterCompile ==
    IF prob.mode = "stdin" /\ prob.ntests = 0
      THEN Return(<<>>, TimeMeta)
      ELSE /\ pc' = "teststart"
           /\ alarm' = "off"
           /\ cand' = "idle"
           /\ UNCHANGED <<ret, res>>

CompileOutcomes ==
    IF Followed THEN {"ok"}
    ELSE IF prob.mode = "call" THEN {"ok", "nomethod", "exc", "exit"} ELSE {"ok", "exc"}

\* candidate code that ran may have altered the shared interpreter state
Taint == IF Followed THEN {penv} ELSE {penv, 1}

\* compile_code lines 241-256 and the two checks that follow it.
CompileFinish ==
    /\ pc = "compiling"
    /\ cand = "run"
    /\ \E o \in CompileOutcomes :
         /\ CASE o = "ok" -> AfterCompile
              [] o = "nomethod" -> Return(<<COMPILE_ERROR>>, [type |-> "set", keys |-> {}, code |-> 0])
              [] o = "exc" -> Return(<<ORCHESTRATION>>, StrMeta)
              [] o = "exit" -> Escape("exit")
         /\ compileExc' = (compileExc \/ o = "exc")
    /\ UNCHANGED <<idx, records, prob, k, ran, fired, judge, beat>>
    /\ penv' \in Taint
    /\ UNCHANGED <<tracked, firstRes, report, guard, streams, saved>>
    /\ UNCHANGED dvars
    /\ UNCHANGED cvars
    /\ UNCHANGED mvars

\* lines 344-349 / 451-458: arm the alarm and call the candidate; a
\* stdin-based test case runs it inside Capturing and the patches of
\* call_method (lines 454, 211-215).
TestStart ==
    /\ pc = "teststart"
    /\ pc' = "testing"
    /\ alarm' = "armed"
    /\ cand' = "run"
    /\ ran' = ran \cup {k}
    /\ IF prob.mode = "stdin"
         THEN /\ saved' = streams
              /\ streams' = Patched
         ELSE UNCHANGED <<streams, saved>>
    /\ UNCHANGED <<idx, records, prob, k, res, ret, fired, compileExc, judge, beat>>
    /\ UNCHANGED <<penv, tracked, firstRes, report, guard>>
    /\ UNCHANGED dvars
    /\ UNCHANGED cvars
    /\ UNCHANGED mvars

\* a test case passed: next test case, or the success return (423 / 553)
Passed ==
    IF k + 1 = prob.ntests
      THEN /\ Return(Append(res, PASS), TimeMeta)
           /\ k' = k
      ELSE /\ res' = Append(res, PASS)
           /\ k' = k + 1
           /\ pc' = IF prob.mode = "call" THEN "compile" ELSE "teststart"
           /\ alarm' = "off"
           /\ cand' = "idle"
           /\ UNCHANGED ret

TestOutcomes ==
    IF Followed THEN {FollowedOutcome}
    ELSE IF prob.mode = "call"
      THEN {"pass", "wrong", "ambig", "nameerror", "error", "tmoname", "exit"}
      ELSE {"pass", "wrong", "error", "tmoname", "exit_pass", "exit_wrong"}

\* grade_call_based lines 349-421 / grade_stdio lines 458-551 and
\* call_method lines 218-224 (stdin mode swallows SystemExit).
TestFinish ==
    /\ pc = "testing"
    /\ cand = "run"
    /\ \E o \in TestOutcomes :
         CASE o \in {"pass", "exit_pass"} -> Passed
           [] o = "wrong" /\ prob.mode = "call" ->
                Return(Append(res, FAIL), WAMeta) /\ k' = k
           [] o \in {"wrong", "exit_wrong"} /\ prob.mode = "stdin" ->
                Return(Append(res, WRONG_ANSWER), WAMeta) /\ k' = k
           [] o = "ambig" ->
                Return(Append(Append(res, AMBIG), RUNTIME_ERROR), ErrMeta(ORCHESTRATION))
                /\ k' = k
           [] o = "nameerror" ->
                Return(Append(res, COMPILE_ERROR), ErrMeta(ORCHESTRATION)) /\ k' = k
           [] o = "error" ->
                Return(Append(res, RUNTIME_ERROR), ErrMeta(ORCHESTRATION)) /\ k' = k
           [] o = "tmoname" ->
                Return(Append(res, TIME_LIMIT), ErrMeta(TIME_LIMIT)) /\ k' = k
           [] o = "exit" -> Escape("exit") /\ k' = k
    /\ UNCHANGED <<idx, records, prob, ran, fired, compileExc, judge, beat>>
    /\ penv' \in Taint
    /\ \E during \in Tampered(streams) :
         streams' = IF prob.mode = "stdin" THEN Restored(saved, during) ELSE streams
    /\ UNCHANGED <<tracked, firstRes, report, guard, saved>>
    /\ UNCHANGED dvars
    /\ UNCHANGED cvars
    /\ UNCHANGED mvars

\* the candidate enters a loop it never leaves on its own
CandDiverge ==
    /\ cand = "run"
    /\ ~Followed
    /\ cand' = "spin"
    /\ UNCHANGED <<pc, idx, records, prob, k, res, ret, alarm, ran, fired, compileExc, judge, beat>>
    /\ UNCHANGED <<penv, tracked, firstRes, report, guard, streams, saved>>
    /\ UNCHANGED dvars
    /\ UNCHANGED cvars
    /\ UNCHANGED mvars

\* one more round of a loop the candidate never leaves
CandSpin ==
    /\ cand = "spin"
    /\ beat' = 1 - beat
    /\ UNCHANGED <<pc, idx, records, prob, k, res, ret, alarm, cand, ran, fired, compileExc, judge>>
    /\ UNCHANGED <<penv, tracked, firstRes, report, guard, streams, saved>>
    /\ UNCHANGED dvars
    /\ UNCHANGED cvars
    /\ UNCHANGED mvars

\* timeout_handler lines 102-104: the one-shot alarm goes off while the
\* candidate executes and TimeoutException is raised inside it.  Either it
\* propagates to the grader, or an except-clause of the candidate swallows it
\* and the candidate goes on with no alarm armed.
AlarmFires ==
    /\ alarm = "armed"
    /\ cand \in {"run", "spin"}
    /\ ~Followed
    /\ fired' = (IF pc = "compiling" THEN "compile" ELSE "test")
    /\ \E swallow \in BOOLEAN :
         IF swallow
           THEN /\ alarm' = "off"
                /\ cand' \in {"run", "spin"}
                /\ UNCHANGED <<pc, ret, res, streams>>
           ELSE IF pc = "compiling"
             THEN /\ Return(<<ORCHESTRATION>>, StrMeta)
                  /\ UNCHANGED streams
             ELSE /\ Return(Append(res, TIME_LIMIT), ErrMeta(TIME_LIMIT))
                  /\ \E during \in Tampered(streams) :
                       streams' = IF prob.mode = "stdin"
                                    THEN Restored(saved, during)
                                    ELSE streams
    /\ UNCHANGED <<idx, records, prob, k, ran, compileExc, judge, beat>>
    /\ penv' \in Taint
    /\ UNCHANGED <<tracked, firstRes, report, guard, saved>>
    /\ UNCHANGED dvars
    /\ UNCHANGED cvars
    /\ UNCHANGED mvars

\* check_correctness lines 50-62
JudgeOf(r) ==
    IF r.kind = "exit" THEN "raised"
    ELSE IF r.kind = "exc" THEN "false"
    ELSE IF \E i \in 1..Len(r.results) : r.results[i] = AMBIG THEN "false"
    ELSE IF Len(r.results) > 0 /\ (\A i \in 1..Len(r.results) : r.results[i] > 0) THEN "true"
    ELSE "false"

CheckCorrectness ==
    /\ pc = "rt_ret"
    /\ judge' = JudgeOf(ret)
    /\ pc' = "cc_ret"
    /\ UNCHANGED <<idx, records, prob, k, res, ret, alarm, cand, ran, fired, compileExc, beat>>
    /\ firstRes' = (IF Followed /\ firstRes = NoRet THEN ret ELSE firstRes)
    /\ UNCHANGED <<penv, tracked, report, guard, streams, saved>>
    /\ UNCHANGED dvars
    /\ UNCHANGED cvars
    /\ UNCHANGED mvars

\* update_results lines 164-176 and the loop body of compute_accuracy
\* (lines 188-192); an exception that left check_correctness ends the run.
UpdateResults ==
    /\ pc = "cc_ret"
    /\ IF judge = "raised"
         THEN /\ pc' = "crashed"
              /\ UNCHANGED <<idx, records>>
         ELSE /\ pc' = "loop"
              /\ records' = Append(records, judge = "true")
              /\ idx' = idx + 1
    /\ UNCHANGED <<prob, k, res, ret, alarm, cand, ran, fired, compileExc, judge, beat>>
    /\ UNCHANGED <<penv, tracked, firstRes, report, guard, streams, saved>>
    /\ UNCHANGED dvars
    /\ UNCHANGED cvars
    /\ UNCHANGED mvars

\* a float that is the quotient of two integers, kept as <<numerator, denominator>>
Quotient(n, d) == <<n, d>>

\* correct += response_entry['correctness'] over the records (lines 190-192)
Corrects(rs) == Cardinality({i \in 1..Len(rs) : rs[i]})

\* compute_accuracy lines 195-222: the loop is exhausted; the split manifest
\* is opened outside any try (a missing file raises FileNotFoundError), then
\* the overall section of the report is built
Finish ==
    /\ pc = "loop"
    /\ idx = Items
    /\ \E split \in {"present", "missing"} :
         IF split = "missing"
           THEN /\ pc' = "nosplit"
                /\ UNCHANGED report
           ELSE /\ pc' = "done"
                /\ LET total == Len(records)
                       correct == Corrects(records)
                   IN  report' = [total_questions |-> total,
                                  correct_answers |-> correct,
                                  accuracy |-> IF total > 0
                                                 THEN Quotient(100 * correct, total)
                                                 ELSE Quotient(0, 1)]
    /\ UNCHANGED <<idx, records, prob, k, res, ret, alarm, cand, ran, fired, compileExc, judge, beat>>
    /\ UNCHANGED <<penv, tracked, firstRes, guard, streams, saved>>
    /\ UNCHANGED dvars
    /\ UNCHANGED cvars
    /\ UNCHANGED mvars

Next ==
    \/ Iterate
    \/ RunTestPrologue
    \/ GradePrep
    \/ CompileStart
    \/ CompileFinish
    \/ TestStart
    \/ TestFinish
    \/ CandDiverge
    \/ CandSpin
    \/ AlarmFires
    \/ CheckCorrectness
    \/ UpdateResults
    \/ Finish

Spec == Init /\ [][Next]_vars

\* the grader's own steps and the candidate make progress, and an armed
\* alarm goes off if the candidate keeps running
FairSpec == Init /\ [][Next]_vars /\ WF_vars(Next) /\ WF_vars(AlarmFires)

\* the driver grades MaxCalls tasks, among them any number of times the
\* followed triple, with arbitrary other tasks in between
DetInit == GBase /\ tracked \in TrackedSet /\ DIdle /\ CIdle /\ MIdle

DetSpec == DetInit /\ [][Next]_vars

\* the driver grades MaxCalls times one end-to-end task, whose candidate
\* neither loops nor runs into the alarm
E2EInit == GBase /\ tracked \in E2ESet /\ DIdle /\ CIdle /\ MIdle

E2ENext ==
    \/ Iterate
    \/ RunTestPrologue
    \/ GradePrep
    \/ CompileStart
    \/ CompileFinish
    \/ TestStart
    \/ TestFinish
    \/ CheckCorrectness
    \/ UpdateResults
    \/ Finish

E2ESpec == E2EInit /\ [][E2ENext]_vars

\* a caller applies reliability_guard itself between two grading tasks, with
\* or without a byte budget
GuardCall ==
    /\ pc = "loop"
    /\ \E mem \in {"none", "budget"} : guard' = ReliabilityGuard(guard, mem)
    /\ UNCHANGED <<pc, idx, records, prob, k, res, ret, alarm, cand, ran, fired, compileExc,
                   judge, beat, penv, tracked, firstRes, report, streams, saved>>
    /\ UNCHANGED dvars
    /\ UNCHANGED cvars
    /\ UNCHANGED mvars

GuardNext == E2ENext \/ GuardCall

GuardSpec == E2EInit /\ [][GuardNext]_vars

\* the driver grades MaxCalls times one call-based task whose candidate
\* returns a given value
CascadeInit == GBase /\ tracked \in CascadeSet /\ DIdle /\ CIdle /\ MIdle

CascadeSpec == CascadeInit /\ [][E2ENext]_vars

\* the driver grades MaxCalls times one stdin-based task whose candidate
\* prints a given text on each test case
StdioInit == GBase /\ tracked \in StdioSet /\ DIdle /\ CIdle /\ MIdle

StdioSpec == StdioInit /\ [][E2ENext]_vars

\* ======================================================================
\* The dataset deduplicator (scripts/dedup_datasets.py)
\* ======================================================================
\* A text is a sequence of one-character strings; a sample is a record whose
\* fields hold texts (the "choices" field a list of texts).  Indices are
\* 1-based here, 0-based in the code.

MaxData == 3                       \* length of the dataset handed in

MIN_TEXT_LENGTH == 3
NGRAM_SIZE == 3
LEVENSHTEIN_THRESHOLD_PCT == 20    \* DEFAULT_LEVENSHTEIN_THRESHOLD = 0.2

Alphabet == <<" ", "a", "b", "c", "d", "e", "f", "g", "x", "A">>

Pool ==
    { [question |-> <<"A", "b", "c", "d", "e", "f">>],
      [text |-> <<" ", "a", "b", "c", "d", "e", "f">>],
      [question |-> <<"a", "b", "c", "d", "e", "f", "g">>],
      [prompt |-> <<"a", "b", "c", "d", "e", "g">>],
      [question |-> <<"a", "b">>, text |-> <<"c", "d", "e", "f">>],
      [answer |-> <<"a">>],
      [label |-> <<"b">>],
      [query |-> <<"a", "b">>],
      [context |-> <<"x", "g", "x", "g", "x", "g">>],
      [input |-> <<"a", "b">>, choices |-> <<(<<"c">>), (<<"d">>)>>] }

\* str.lower on the alphabet
Lower(t) == [i \in 1..Len(t) |-> IF t[i] = "A" THEN "a" ELSE t[i]]

\* _normalize_text: text.lower().strip()
NormalizeText(t) == RStrip(LStrip(Lower(t)))

\* " ".join(parts)
RECURSIVE Join(_)
Join(parts) ==
    IF parts = <<>> THEN <<>>
    ELSE IF Len(parts) = 1 THEN parts[1]
    ELSE parts[1] \o <<" ">> \o Join(Tail(parts))

TextFields == <<"question", "query", "text", "prompt", "input", "context">>

RECURSIVE FieldParts(_, _)
FieldParts(sample, fields) ==
    IF fields = <<>> THEN <<>>
    ELSE (IF Head(fields) \in DOMAIN sample THEN <<sample[Head(fields)]>> ELSE <<>>)
         \o FieldParts(sample, Tail(fields))

\* _extract_text_content
ExtractTextContent(sample) ==
    Join(FieldParts(sample, TextFields)
         \o (IF "choices" \in DOMAIN sample THEN sample["choices"] ELSE <<>>))

Canon(sample) == NormalizeText(ExtractTextContent(sample))

CharCode(c) == CHOOSE i \in 1..Len(Alphabet) : Alphabet[i] = c

\* _calculate_hash: SHA-256 of the text, taken as collision free: the digest
\* is modelled by the number the text spells in base Len(Alphabet)+1.
RECURSIVE CalculateHash(_)
CalculateHash(t) ==
    IF t = <<>> THEN 0
    ELSE CalculateHash(SubSeq(t, 1, Len(t) - 1)) * (Len(Alphabet) + 1) + CharCode(t[Len(t)])

\* a scan that never records the hashes it has seen
RECURSIVE ExactScanForgetful(_, _, _, _, _)
ExactScanForgetful(ds, i, seen, kept, dups) ==
    IF i > Len(ds) THEN [deduplicated |-> kept, duplicates |-> dups]
    ELSE LET h == CalculateHash(Canon(ds[i]))
         IN  IF h \notin seen
               THEN ExactScanForgetful(ds, i + 1, seen, Append(kept, ds[i]), dups)
               ELSE ExactScanForgetful(ds, i + 1, seen, kept, dups \cup {i})

\* deduplicate_exact: the scan from sample i on, with the hashes seen so far
RECURSIVE ExactScan(_, _, _, _, _)
ExactScan(ds, i, seen, kept, dups) ==
    IF i > Len(ds) THEN [deduplicated |-> kept, duplicates |-> dups]
    ELSE LET h == CalculateHash(Canon(ds[i]))
         IN  IF h \notin seen
               THEN ExactScan(ds, i + 1, seen \cup {h}, Append(kept, ds[i]), dups)
               ELSE ExactScan(ds, i + 1, seen, kept, dups \cup {i})

\* a stage 1 that also drops the last record it kept
DeduplicateExactLossy(ds) ==
    LET r == ExactScan(ds, 1, {}, <<>>, {})
    IN  [deduplicated |-> SubSeq(r.deduplicated, 1, Len(r.deduplicated) - 1),
         duplicates |-> r.duplicates]

DeduplicateExactOf(ds) == ExactScan(ds, 1, {}, <<>>, {})

\* _create_minhash: the signature is a function of the set of character
\* 3-grams of the text
Ngrams(t) == {SubSeq(t, i, i + NGRAM_SIZE - 1) : i \in 1..(Len(t) - NGRAM_SIZE + 1)}

Min2(a, b) == IF a < b THEN a ELSE b

\* one row of the edit-distance table: acc holds the entries 0..Len(acc)-1
\* of the row of character c, prev is the row before it
RECURSIVE LevRow(_, _, _, _)
LevRow(prev, s, c, acc) ==
    IF Len(acc) = Len(s) + 1 THEN acc
    ELSE LET i == Len(acc)
         IN  LevRow(prev, s, c,
                    Append(acc, Min2(Min2(prev[i + 1] + 1, acc[i] + 1),
                                     prev[i] + (IF s[i] = c THEN 0 ELSE 1))))

RECURSIVE LevRows(_, _, _, _)
LevRows(s, t, j, prev) ==
    IF j > Len(t) THEN prev[Len(s) + 1]
    ELSE LevRows(s, t, j + 1, LevRow(prev, s, t[j], <<j>>))

\* Levenshtein.distance (insertions, deletions and substitutions cost 1)
LevenshteinDistance(s, t) == LevRows(s, t, 1, [i \in 1..(Len(s) + 1) |-> i - 1])

MaxLen(s, t) == IF Len(s) > Len(t) THEN Len(s) ELSE Len(t)

\* similarity > 1.0 - levenshtein_threshold, with
\* similarity = 1.0 - dist / max_len (1.0 when both texts are empty):
\* dist / max_len < threshold, in hundredths
Similar(s, t) ==
    IF MaxLen(s, t) = 0 THEN TRUE
    ELSE LevenshteinDistance(s, t) * 100 < LEVENSHTEIN_THRESHOLD_PCT * MaxLen(s, t)

Pair(a, b) == IF a < b THEN <<a, b>> ELSE <<b, a>>

\* MinHashLSH.insert / query: two keys are returned for one another when some
\* band of their signatures falls into the same bucket.  Equal 3-gram sets
\* give equal signatures, hence always a shared bucket; texts without a common
\* 3-gram share none; for the rest the index is approximate and may or may not
\* report the pair.
LshIndexes(tx) ==
    LET keys == DOMAIN tx
        pairs == {p \in keys \X keys : p[1] < p[2]}
        sure == {p \in pairs : Ngrams(tx[p[1]]) = Ngrams(tx[p[2]])}
        never == {p \in pairs : Ngrams(tx[p[1]]) \cap Ngrams(tx[p[2]]) = {}}
    IN  {sure \cup l : l \in SUBSET (pairs \ (sure \cup never))}

\* self.lsh.query(minhashes[i])
Query(i) == {j \in DOMAIN lsh : j = i \/ Pair(i, j) \in link}

DInit ==
    /\ GInit
    /\ CIdle
    /\ MIdle
    /\ dpc = "start"
    /\ data \in UNION {[1..n -> Pool] : n \in 0..MaxData}
    /\ exact = NoStage
    /\ texts = <<>>
    /\ link = {}
    /\ duplicates = {}
    /\ checked = {}
    /\ qi = 0
    /\ todo = {}
    /\ near = NoStage
    /\ cause = {}
    /\ result = NoResult
    /\ again = NoStage
    /\ lsh = <<>>
    /\ calls = 1

\* deduplicate lines 176-180: stage 1
DeduplicateExact ==
    /\ dpc = "start"
    /\ exact' = DeduplicateExactOf(data)
    /\ dpc' = "exact"
    /\ UNCHANGED <<data, texts, link, duplicates, checked, qi, todo, near, cause, result>>
    /\ UNCHANGED <<again, lsh, calls>>
    /\ UNCHANGED gvars
    /\ UNCHANGED cvars
    /\ UNCHANGED mvars

\* the entries of index a together with those of b
Merge(a, b) == [i \in (DOMAIN a) \cup (DOMAIN b) |-> IF i \in DOMAIN b THEN b[i] ELSE a[i]]

\* deduplicate_near lines 121-139: signatures of the stage-1 survivors are
\* inserted into the LSH index of the instance, which keeps what earlier
\* calls inserted (Merge); MinHashLSH.insert raises ValueError for a key
\* that the index already holds, after the smaller keys were inserted
NearIndex ==
    /\ dpc = "exact"
    /\ LET ds == exact.deduplicated
           tx == [i \in {j \in 1..Len(ds) : Len(Canon(ds[j])) >= MIN_TEXT_LENGTH} |->
                     Canon(ds[i])]
           clash == (DOMAIN tx) \cap (DOMAIN lsh)
       IN  IF clash # {}
             THEN LET first == CHOOSE c \in clash : \A d \in clash : c <= d
                  IN  /\ lsh' = Merge(lsh, [i \in {j \in DOMAIN tx : j < first} |-> tx[i]])
                      /\ dpc' = "raised"
                      /\ result' = [kind |-> "raised"]
                      /\ UNCHANGED <<texts, link, duplicates, checked, qi, todo, cause>>
             ELSE /\ lsh' = Merge(lsh, tx)
                  /\ texts' = tx
                  /\ link' \in LshIndexes(Merge(lsh, tx))
                  /\ duplicates' = {}
                  /\ checked' = {}
                  /\ qi' = 1
                  /\ todo' = {}
                  /\ dpc' = "query"
                  /\ cause' = {}
                  /\ UNCHANGED result
    /\ UNCHANGED <<data, exact, near, again, calls>>
    /\ UNCHANGED gvars
    /\ UNCHANGED cvars
    /\ UNCHANGED mvars

\* line 143 without its second test: only records without a signature are
\* passed over
SkippedUnsigned(i) == i \notin DOMAIN texts

\* line 143: the outer loop passes over a record that has no signature or is
\* already marked as a duplicate
Skipped(i) == i \notin DOMAIN texts \/ i \in duplicates

\* lines 141-146: the outer loop takes the next record and queries the index
NearQuery ==
    /\ dpc = "query"
    /\ qi <= Len(exact.deduplicated)
    /\ IF Skipped(qi)
         THEN /\ qi' = qi + 1
              /\ UNCHANGED <<todo, dpc>>
         ELSE /\ todo' = Query(qi)
              /\ dpc' = "cands"
              /\ UNCHANGED qi
    /\ UNCHANGED <<data, exact, texts, link, duplicates, checked, near, cause, result>>
    /\ UNCHANGED <<again, lsh, calls>>
    /\ UNCHANGED gvars
    /\ UNCHANGED cvars
    /\ UNCHANGED mvars

\* lines 163-166 with the comparison turned around: the longer text is marked
LoserLonger(i, c) == IF Len(texts[c]) < Len(texts[i]) THEN i ELSE c

\* lines 163-166: of a confirmed pair, the query i is marked when the
\* candidate c is strictly longer, the candidate otherwise
Loser(i, c) == IF Len(texts[c]) > Len(texts[i]) THEN i ELSE c

\* lines 148-166: one round of the inner loop; the index returns the
\* candidates in no particular order
NearCandidate ==
    /\ dpc = "cands"
    /\ \E c \in todo :
         /\ todo' = todo \ {c}
         /\ IF c = qi \/ c \in duplicates \/ Pair(qi, c) \in checked
              THEN UNCHANGED <<duplicates, checked, cause, dpc, result>>
            ELSE IF c \notin DOMAIN texts
              THEN /\ checked' = checked \cup {Pair(qi, c)}
                   /\ dpc' = "raised"
                   /\ result' = [kind |-> "raised"]
                   /\ UNCHANGED <<duplicates, cause>>
              ELSE /\ checked' = checked \cup {Pair(qi, c)}
                   /\ UNCHANGED <<dpc, result>>
                   /\ IF Similar(texts[qi], texts[c])
                        THEN /\ duplicates' = duplicates \cup {Loser(qi, c)}
                             /\ cause' = cause \cup
                                  {<<Loser(qi, c), IF Loser(qi, c) = c THEN qi ELSE c>>}
                        ELSE UNCHANGED <<duplicates, cause>>
    /\ UNCHANGED <<data, exact, texts, link, qi, near>>
    /\ UNCHANGED <<again, lsh, calls>>
    /\ UNCHANGED gvars
    /\ UNCHANGED cvars
    /\ UNCHANGED mvars

\* the candidates of the current query are exhausted
NearNextQuery ==
    /\ dpc = "cands"
    /\ todo = {}
    /\ qi' = qi + 1
    /\ dpc' = "query"
    /\ UNCHANGED <<data, exact, texts, link, duplicates, checked, todo, near, cause, result>>
    /\ UNCHANGED <<again, lsh, calls>>
    /\ UNCHANGED gvars
    /\ UNCHANGED cvars
    /\ UNCHANGED mvars

Keep(ds, dups) ==
    LET F[i \in 0..Len(ds)] ==
            IF i = 0 THEN <<>>
            ELSE IF i \in dups THEN F[i - 1] ELSE Append(F[i - 1], ds[i])
    IN  F[Len(ds)]

\* lines 168-172: the surviving records, in order
NearOutput ==
    /\ dpc = "query"
    /\ qi > Len(exact.deduplicated)
    /\ near' = [deduplicated |-> Keep(exact.deduplicated, duplicates),
                duplicates |-> duplicates]
    /\ dpc' = "near"
    /\ UNCHANGED <<data, exact, texts, link, duplicates, checked, qi, todo, cause, result>>
    /\ UNCHANGED <<again, lsh, calls>>
    /\ UNCHANGED gvars
    /\ UNCHANGED cvars
    /\ UNCHANGED mvars

\* deduplicate lines 185-207: the statistics and the result; the rate is kept
\* as the fraction <<numerator, denominator>> of total_duplicates * 100 over
\* original_size, and the division of line 195 raises ZeroDivisionError when
\* the dataset handed in is empty
DeduplicateResult ==
    /\ dpc = "near"
    /\ LET original_size == Len(data)
           total_duplicates == Cardinality(exact.duplicates) + Cardinality(near.duplicates)
       IN  IF original_size = 0
             THEN /\ dpc' = "raised"
                  /\ result' = [kind |-> "raised"]
             ELSE /\ dpc' = "done"
                  /\ result' = [kind |-> "ret",
                                original_size |-> original_size,
                                exact_duplicates |-> Cardinality(exact.duplicates),
                                near_duplicates |-> Cardinality(near.duplicates),
                                total_duplicates |-> total_duplicates,
                                final_size |-> Len(near.deduplicated),
                                deduplication_rate |-> <<total_duplicates * 100, original_size>>,
                                dataset |-> near.deduplicated]
    /\ UNCHANGED <<data, exact, texts, link, duplicates, checked, qi, todo, near, cause>>
    /\ UNCHANGED <<again, lsh, calls>>
    /\ UNCHANGED gvars
    /\ UNCHANGED cvars
    /\ UNCHANGED mvars

DNext ==
    \/ DeduplicateExact
    \/ NearIndex
    \/ NearQuery
    \/ NearCandidate
    \/ NearNextQuery
    \/ NearOutput
    \/ DeduplicateResult

DedupSpec == DInit /\ [][DNext]_vars

\* a caller hands the output of deduplicate_exact to deduplicate_exact again
ExactAgain ==
    /\ dpc = "exact"
    /\ again' = DeduplicateExactOf(exact.deduplicated)
    /\ dpc' = "again"
    /\ UNCHANGED <<data, exact, texts, link, duplicates, checked, qi, todo, near, cause, result>>
    /\ UNCHANGED <<lsh, calls>>
    /\ UNCHANGED gvars
    /\ UNCHANGED cvars
    /\ UNCHANGED mvars

IdemNext ==
    \/ DeduplicateExact
    \/ ExactAgain

IdemSpec == DInit /\ [][IdemNext]_vars

MaxRepeat == 2                     \* length of the dataset of the first call
MaxDedupCalls == 2                 \* deduplicate calls on one instance

RECURSIVE Reverse(_)
Reverse(s) == IF s = <<>> THEN <<>> ELSE Append(Reverse(Tail(s)), Head(s))

\* the dataset of a later call: the same one, the same records in the
\* opposite order, or the dataset without its first record

\* deduplicate is called again on the instance: the locals of the call are
\* new, self.lsh is the object that __init__ created (line 52)
DeduplicateCall ==
    /\ dpc \in {"done", "raised"}
    /\ calls < MaxDedupCalls
    /\ data' \in {data, Reverse(data), IF data = <<>> THEN data ELSE Tail(data)}
    /\ calls' = calls + 1
    /\ dpc' = "start"
    /\ exact' = NoStage
    /\ texts' = <<>>
    /\ link' = {}
    /\ duplicates' = {}
    /\ checked' = {}
    /\ qi' = 0
    /\ todo' = {}
    /\ near' = NoStage
    /\ cause' = {}
    /\ result' = NoResult
    /\ UNCHANGED <<again, lsh>>
    /\ UNCHANGED gvars
    /\ UNCHANGED cvars
    /\ UNCHANGED mvars

RepeatInit ==
    /\ GInit
    /\ CIdle
    /\ MIdle
    /\ dpc = "start"
    /\ data \in UNION {[1..n -> Pool] : n \in 0..MaxRepeat}
    /\ exact = NoStage
    /\ texts = <<>>
    /\ link = {}
    /\ duplicates = {}
    /\ checked = {}
    /\ qi = 0
    /\ todo = {}
    /\ near = NoStage
    /\ cause = {}
    /\ result = NoResult
    /\ again = NoStage
    /\ lsh = <<>>
    /\ calls = 1

RepeatNext == DNext \/ DeduplicateCall

RepeatSpec == RepeatInit /\ [][RepeatNext]_vars

\* ======================================================================
\* The identifier join of the benchmark driver (combine)
\* ======================================================================
MaxQLines == 2                     \* lines of the problems file
MaxGLines == 3                     \* lines of the generation files together


\* a line of a JSONL file: an object with an identifier, text that is not
\* JSON, or a blank line
QLines ==
    {[kind |-> "bad", id |-> 0], [kind |-> "blank", id |-> 0]}
        \cup {[kind |-> "json", id |-> q] : q \in {1, 2}}

GLines ==
    {[kind |-> "bad", id |-> 0], [kind |-> "blank", id |-> 0]}
        \cup {[kind |-> "json", id |-> g] : g \in {1, 2, 3}}

FilesOf(lines, n) == UNION {[1..m -> lines] : m \in 0..n}

\* combine is called on a problems file and on generation files; the text of
\* the generation on line p is taken to be p (all texts differ)
CInit ==
    /\ GInit
    /\ DIdle
    /\ MIdle
    /\ cpc = "questions"
    /\ qfile \in FilesOf(QLines, MaxQLines)
    /\ gfile \in FilesOf(GLines, MaxGLines)
    /\ cpos = 0
    /\ questions = <<>>
    /\ combined = <<>>
    /\ generations = <<>>
    /\ collected = <<>>
    /\ warned = {}

\* lines 75-79: one line of the problems file; json.loads has no handler here
ReadQuestionLine ==
    /\ cpc = "questions"
    /\ cpos < Len(qfile)
    /\ LET line == qfile[cpos + 1]
       IN  CASE line.kind = "blank" ->
                  /\ cpos' = cpos + 1
                  /\ UNCHANGED <<cpc, questions>>
             [] line.kind = "bad" ->
                  /\ cpc' = "raised"
                  /\ UNCHANGED <<cpos, questions>>
             [] line.kind = "json" ->
                  /\ questions' = Append(questions, [question_id |-> line.id])
                  /\ cpos' = cpos + 1
                  /\ UNCHANGED cpc
    /\ UNCHANGED <<qfile, gfile, combined, generations, collected, warned>>
    /\ UNCHANGED gvars
    /\ UNCHANGED dvars
    /\ UNCHANGED mvars

\* lines 84-101: combined_results, keyed by question_id, without generations
BuildCombined ==
    /\ cpc = "questions"
    /\ cpos = Len(qfile)
    /\ combined' = [q \in {questions[i].question_id : i \in 1..Len(questions)} |-> 0]
    /\ cpc' = "generations"
    /\ cpos' = 0
    /\ UNCHANGED <<qfile, gfile, questions, generations, collected, warned>>
    /\ UNCHANGED gvars
    /\ UNCHANGED dvars
    /\ UNCHANGED mvars

\* lines 105-119: one line of a generation file; a JSONDecodeError is
\* reported and the line is skipped
ReadGenerationLine ==
    /\ cpc = "generations"
    /\ cpos < Len(gfile)
    /\ LET line == gfile[cpos + 1]
       IN  CASE line.kind = "blank" -> UNCHANGED <<generations, warned>>
             [] line.kind = "bad" ->
                  /\ warned' = warned \cup {cpos + 1}
                  /\ UNCHANGED generations
             [] line.kind = "json" ->
                  /\ generations' = Append(generations,
                                           [task_id |-> line.id, generation |-> cpos + 1])
                  /\ UNCHANGED warned
    /\ cpos' = cpos + 1
    /\ UNCHANGED <<cpc, qfile, gfile, questions, combined, collected>>
    /\ UNCHANGED gvars
    /\ UNCHANGED dvars
    /\ UNCHANGED mvars

\* lines 121-123: all generation files are read
StartJoin ==
    /\ cpc = "generations"
    /\ cpos = Len(gfile)
    /\ cpc' = "join"
    /\ cpos' = 0
    /\ UNCHANGED <<qfile, gfile, questions, combined, generations, collected, warned>>
    /\ UNCHANGED gvars
    /\ UNCHANGED dvars
    /\ UNCHANGED mvars

\* a task list whose entries for one question share one record, so that a
\* later generation overwrites the text of the earlier tasks
CollectShared(coll, g) ==
    Append([i \in 1..Len(coll) |->
               IF coll[i].question_id = g.task_id
                 THEN [coll[i] EXCEPT !.generation = g.generation] ELSE coll[i]],
           [question_id |-> g.task_id, generation |-> g.generation])

\* lines 145-146: the generation is stored in the problem's entry and a deep
\* copy of the entry is appended to all_collected
Collect(coll, g) ==
    Append(coll, [question_id |-> g.task_id, generation |-> g.generation])

\* lines 124-152: one generation is matched against the problems
JoinGeneration ==
    /\ cpc = "join"
    /\ cpos < Len(generations)
    /\ LET g == generations[cpos + 1]
       IN  IF g.task_id \in DOMAIN combined
             THEN /\ combined' = [combined EXCEPT ![g.task_id] = g.generation]
                  /\ collected' = Collect(collected, g)
             ELSE UNCHANGED <<combined, collected>>
    /\ cpos' = cpos + 1
    /\ UNCHANGED <<cpc, qfile, gfile, questions, generations, warned>>
    /\ UNCHANGED gvars
    /\ UNCHANGED dvars
    /\ UNCHANGED mvars

\* lines 154-162: problems without a generation are deleted from
\* combined_results and all_collected is returned
CombineReturn ==
    /\ cpc = "join"
    /\ cpos = Len(generations)
    /\ combined' = [q \in {x \in DOMAIN combined : combined[x] # 0} |-> combined[q]]
    /\ cpc' = "done"
    /\ UNCHANGED <<qfile, gfile, cpos, questions, generations, collected, warned>>
    /\ UNCHANGED gvars
    /\ UNCHANGED dvars
    /\ UNCHANGED mvars

CNext ==
    \/ ReadQuestionLine
    \/ BuildCombined
    \/ ReadGenerationLine
    \/ StartJoin
    \/ JoinGeneration
    \/ CombineReturn

CombineSpec == CInit /\ [][CNext]_vars

\* ======================================================================
\* compute_accuracy after the loop: the split manifest and the monthly
\* analysis (eval/nvidia_eval/evaluate_livecodebench.py lines 195-315)
\* ======================================================================
MaxRecords == 2     \* response entries of a run

Qids == {"q1", "q2"}

\* the month keys a manifest may hold, in the order sorted() gives them
Calendar == <<"2024-04", "2024-05", "2024-06", "2025-01">>

\* the loop of lines 188-192 is over: recs holds the response entries, and
\* the manifest file exists or does not
MInit ==
    /\ mpc = "split"
    /\ manifest \in {"present", "missing"}
    /\ recs \in UNION {[1..n -> [qid : Qids, correctness : BOOLEAN]] : n \in 0..MaxRecords}
    /\ months \in (IF manifest = "present"
                     THEN UNION {[S -> SUBSET Qids] :
                                    S \in SUBSET {Calendar[i] : i \in 1..Len(Calendar)}}
                     ELSE {<<>>})
    /\ mp = <<>>
    /\ N = 0
    /\ A = 0
    /\ B = 0
    /\ pending = <<>>
    /\ results_json = EmptyJson
    /\ GInit
    /\ DIdle
    /\ CIdle

\* line 195: json.load(open("data/livecodebench_split.json")) outside any
\* try; a missing file raises FileNotFoundError out of compute_accuracy
LoadSplit ==
    /\ mpc = "split"
    /\ mpc' = (IF manifest = "missing" THEN "raised" ELSE "tally")
    /\ UNCHANGED <<manifest, recs, months, mp, N, A, B, pending, results_json>>
    /\ UNCHANGED gvars
    /\ UNCHANGED dvars
    /\ UNCHANGED cvars

\* lines 197-201: the number of correct response entries of each identifier
CorrectPerQid(rs) ==
    [q \in {rs[i].qid : i \in {j \in 1..Len(rs) : rs[j].correctness}} |->
        Cardinality({i \in 1..Len(rs) : rs[i].qid = q /\ rs[i].correctness})]

\* an entry of the report: accuracy = 100.0 * corrects / total if total > 0
Entry(corrects, total) ==
    [corrects |-> corrects, total |-> total,
     accuracy |-> IF total > 0 THEN Quotient(100 * corrects, total) ELSE Quotient(0, 1)]

\* lines 197-222: mp and the overall section of the report
Tally ==
    /\ mpc = "tally"
    /\ mp' = CorrectPerQid(recs)
    /\ LET total == Len(recs)
           correct == Cardinality({i \in 1..Len(recs) : recs[i].correctness})
       IN  results_json' =
               [overall |-> [total_questions |-> total,
                             correct_answers |-> correct,
                             accuracy |-> IF total > 0
                                            THEN Quotient(100 * correct, total)
                                            ELSE Quotient(0, 1)],
                monthly_results |-> <<>>,
                period_results |-> <<>>,
                version_results |-> <<>>]
    /\ mpc' = "open"
    /\ UNCHANGED <<manifest, recs, months, N, A, B, pending>>
    /\ UNCHANGED gvars
    /\ UNCHANGED dvars
    /\ UNCHANGED cvars

RECURSIVE SumOver(_, _)
SumOver(f, S) ==
    IF S = {} THEN 0
    ELSE LET x == CHOOSE y \in S : TRUE
         IN  f[x] + SumOver(f, S \ {x})

\* lines 224-235: the manifest is opened again, inside the try whose except
\* clause skips the analysis; N = max(1, len(records) // total) and the
\* running sums are set up, and sorted() puts the month keys in order
MonthlyStart ==
    /\ mpc = "open"
    /\ IF manifest = "missing"
         THEN /\ mpc' = "returned"
              /\ UNCHANGED <<N, A, B, pending>>
         ELSE /\ LET total_expected_problems ==
                          SumOver([m \in DOMAIN months |-> Cardinality(months[m])],
                                  DOMAIN months)
                      per == IF total_expected_problems > 0
                               THEN Len(recs) \div total_expected_problems
                               ELSE 1
                  IN  N' = IF per > 1 THEN per ELSE 1
              /\ A' = 0
              /\ B' = 0
              /\ pending' = SelectSeq(Calendar, LAMBDA m : m \in DOMAIN months)
              /\ mpc' = "month"
    /\ UNCHANGED <<manifest, recs, months, mp, results_json>>
    /\ UNCHANGED gvars
    /\ UNCHANGED dvars
    /\ UNCHANGED cvars

\* lines 235-275: one round of the loop over the sorted months
MonthStep ==
    /\ mpc = "month"
    /\ pending # <<>>
    /\ LET m == Head(pending)
           p == months[m]
           corrects == SumOver(mp, p \cap DOMAIN mp)
           month_total == Cardinality(p) * N
           period_name == IF m = "2024-05" THEN "05/23-05/24" ELSE "06/24-01/25"
           monthly == Merge(results_json.monthly_results,
                            [x \in {m} |-> Entry(corrects, month_total)])
       IN  IF m = "2024-05" \/ m = "2025-01"
             THEN /\ results_json' =
                        [results_json EXCEPT
                            !.monthly_results = monthly,
                            !.period_results =
                                Merge(@, [x \in {period_name} |->
                                             Entry(A + corrects, B + month_total)])]
                  /\ A' = 0
                  /\ B' = 0
             ELSE /\ results_json' = [results_json EXCEPT !.monthly_results = monthly]
                  /\ A' = A + corrects
                  /\ B' = B + month_total
    /\ pending' = Tail(pending)
    /\ UNCHANGED <<mpc, manifest, recs, months, mp, N>>
    /\ UNCHANGED gvars
    /\ UNCHANGED dvars
    /\ UNCHANGED cvars

\* lines 284-310: the sums of the monthly entries of one version
VersionEntry(monthly, ms) ==
    LET have == ms \cap DOMAIN monthly
    IN  Entry(SumOver([m \in have |-> monthly[m].corrects], have),
              SumOver([m \in have |-> monthly[m].total], have))

\* lines 277-315: the version sections, and the return of the report
Versions ==
    /\ mpc = "month"
    /\ pending = <<>>
    /\ results_json' =
           [results_json EXCEPT
               !.version_results =
                   [v \in {"v5", "v6"} |->
                       VersionEntry(results_json.monthly_results,
                           IF v = "v5"
                             THEN {"2023-05", "2023-06", "2023-07", "2023-08", "2023-09",
                                   "2023-10", "2023-11", "2023-12", "2024-01", "2024-02",
                                   "2024-03", "2024-04", "2024-05"}
                             ELSE {"2024-06", "2024-07", "2024-08", "2024-09", "2024-10",
                                   "2024-11", "2024-12", "2025-01", "2025-02", "2025-03",
                                   "2025-04"})]]
    /\ mpc' = "returned"
    /\ UNCHANGED <<manifest, recs, months, mp, N, A, B, pending>>
    /\ UNCHANGED gvars
    /\ UNCHANGED dvars
    /\ UNCHANGED cvars

MNext ==
    \/ LoadSplit
    \/ Tally
    \/ MonthlyStart
    \/ MonthStep
    \/ Versions

MonthlySpec == MInit /\ [][MNext]_vars

\* ======================================================================
\* Properties of the grader and of the driver loop
\* ======================================================================
Returned == pc = "rt_ret" /\ ret.kind = "ret"

FullBundle == {"error", "error_code", "error_message", "inputs", "expected"}

WABundle == {"inputs", "output", "expected", "error_code", "error_message"}

AllPass(s) == \A i \in 1..Len(s) : s[i] = PASS

EndsWith(s, codes) == Len(s) > 0 /\ Last(s) \in codes

\* C1 (as stated): when run_test returns a list that ends with a fatal code
\* produced while test case k was being graded, the list has exactly k+1
\* entries, the first k of them passes, and no test case after k was run.
C1_FatalAbort ==
    (Returned /\ EndsWith(ret.results, FatalCodes)) =>
        /\ Len(ret.results) = k + 1
        /\ \A i \in 1..k : ret.results[i] = PASS
        /\ \A t \in ran : t <= k

\* C2 (as stated): if the alarm fired while candidate code was executing
\* (compile step or a test case), run_test returns a list ending with -3.
C2_TimeoutIsMinus3 ==
    (pc = "rt_ret" /\ fired # "none") =>
        (ret.kind = "ret" /\ EndsWith(ret.results, {TIME_LIMIT}))

\* C3 (as stated): every call of run_test eventually returns to its caller.
C3_RunTestReturns == (pc = "rt_start") ~> (pc = "rt_ret")

\* C4 (as stated): an exception raised by the compilation step makes
\* run_test return the compile-error code -200.
C4_CompileErrorIsMinus200 ==
    (pc = "rt_ret" /\ compileExc) =>
        (ret.kind = "ret" /\ ret.results = <<COMPILE_ERROR>>)

\* C5 (as stated): run_test always hands back a (results, metadata) pair;
\* no exception leaves it.
C5_NoExceptionEscapes == (pc = "rt_ret") => (ret.kind = "ret")

\* C6 (as stated): compute_accuracy never stops because of one item: it keeps
\* one record per graded item and ends with a record for every item, an item
\* whose grading did not pass being recorded as False.
C6_RunSurvives ==
    /\ pc # "crashed"
    /\ Len(records) = idx
    /\ (pc = "done") => (Len(records) = NItems)
    /\ (pc = "loop" /\ idx > 0
          /\ ~(ret.kind = "ret" /\ Len(ret.results) > 0 /\ AllPass(ret.results)))
         => (records[idx] = FALSE)

\* C7 (as stated): check_correctness answers True exactly when run_test
\* returned a non-empty list of passes, and False otherwise, also when
\* run_test raised.
C7_JudgeIffAllPass ==
    (pc = "cc_ret") =>
        (judge = (IF ret.kind = "ret" /\ Len(ret.results) > 0 /\ AllPass(ret.results)
                    THEN "true" ELSE "false"))

\* C8 (as stated): on every return path the metadata is a dict holding either
\* 'execution time' or the full failure bundle.
C8_MetadataAlwaysBundle ==
    Returned =>
        /\ ret.meta.type = "dict"
        /\ ("execution time" \in ret.meta.keys \/ FullBundle \subseteq ret.meta.keys)

\* C8 (amended): the metadata is a dict with 'execution time' when every
\* executed test passed; a dict with inputs/output/expected/error_code/
\* error_message and no 'error' key when the list ends with a wrong answer
\* (False or -2); a dict with the full failure bundle when it ends with -3 or
\* -300; a plain description string when it ends with -100 or -4; and for a
\* list ending with -200 either the full bundle or a description (string or
\* set) that is not a dict.
C8_MetadataByPath ==
    Returned =>
        LET r == ret.results
            m == ret.meta
        IN  /\ AllPass(r) => (m.type = "dict" /\ "execution time" \in m.keys)
            /\ EndsWith(r, {FAIL, WRONG_ANSWER}) =>
                 (m.type = "dict" /\ WABundle \subseteq m.keys /\ "error" \notin m.keys)
            /\ EndsWith(r, {TIME_LIMIT, RUNTIME_ERROR}) =>
                 (m.type = "dict" /\ FullBundle \subseteq m.keys)
            /\ EndsWith(r, {NO_CODE, ORCHESTRATION}) => (m.type = "str")
            /\ EndsWith(r, {COMPILE_ERROR}) =>
                 \/ (m.type = "dict" /\ FullBundle \subseteq m.keys)
                 \/ m.type \in {"str", "set"}

\* a timed-out test case came back with the failure bundle, after an earlier
\* call in the same run came back with a description string
C8_Witness ==
    /\ Returned
    /\ EndsWith(ret.results, {TIME_LIMIT})
    /\ ret.meta.type = "dict"
    /\ FullBundle \subseteq ret.meta.keys
    /\ idx > 0

\* ======================================================================
\* Properties of the deduplicator
\* ======================================================================
Survives(i) == i \notin near.duplicates

\* a pair of stage-2 records whose texts the edit-distance check confirms
NearPairs ==
    {p \in (DOMAIN texts) \X (DOMAIN texts) :
        p[1] < p[2] /\ Similar(texts[p[1]], texts[p[2]])}

\* the record of a pair that the claim expects to stay: the longer text, the
\* first-seen one when the lengths are equal
Longer(p) == IF Len(texts[p[2]]) > Len(texts[p[1]]) THEN p[2] ELSE p[1]

Other(p, i) == IF i = p[1] THEN p[2] ELSE p[1]

\* d was marked in a comparison with a record outside the pair p
MarkedByThird(p, d) == \E c \in cause : c[1] = d /\ c[2] \notin {p[1], p[2]}

\* C9 (as stated): of every two stage-2 records with edit-similarity above
\* 1 - levenshtein_threshold exactly one is in the output of deduplicate_near,
\* and it is the one with the longer text (the first-seen one on equal length).
C9_ExactlyLongerSurvives ==
    (dpc = "done") =>
        \A p \in NearPairs : Survives(Longer(p)) /\ ~Survives(Other(p, Longer(p)))

\* C9 (amended): of two such records that the LSH index returns as candidates
\* of one another at most one is in the output; and when neither of the two
\* was marked in a comparison with a third record, exactly one is in the
\* output, the one with the longer text (the first-seen one on equal length).
C9_AtMostOneSurvives ==
    (dpc = "done") =>
        \A p \in NearPairs :
            (p \in link) =>
                /\ ~(Survives(p[1]) /\ Survives(p[2]))
                /\ (~MarkedByThird(p, p[1]) /\ ~MarkedByThird(p, p[2])) =>
                     (Survives(Longer(p)) /\ ~Survives(Other(p, Longer(p))))

\* a later, strictly longer record was kept and the earlier one of the pair
\* removed, with a third stage-2 record in the dataset
C9_Witness ==
    /\ dpc = "done"
    /\ \E p \in NearPairs :
         /\ p \in link
         /\ Len(texts[p[2]]) > Len(texts[p[1]])
         /\ Survives(p[2])
         /\ ~Survives(p[1])
         /\ Cardinality(DOMAIN texts) >= 3

\* the indices of the first records carrying each normalized text
FirstOccurrences(ds) ==
    {i \in 1..Len(ds) : \A j \in 1..(i - 1) : Canon(ds[j]) # Canon(ds[i])}

\* C10: deduplicate_exact returns, in order, exactly the first record of each
\* distinct normalized text and reports every later record with that text as
\* a duplicate; records without any text field all have the empty text.
C10_ExactKeepsFirst ==
    (dpc # "start") =>
        /\ exact.deduplicated = Keep(data, (1..Len(data)) \ FirstOccurrences(data))
        /\ exact.duplicates = (1..Len(data)) \ FirstOccurrences(data)
        /\ \A i \in 1..Len(data) :
             ((DOMAIN data[i]) \cap ({TextFields[f] : f \in 1..Len(TextFields)} \cup {"choices"}) = {})
                => (Canon(data[i]) = <<>>)

\* two different records without text fields, after a record with a text:
\* the first of the two is kept and the second one dropped
C10_Witness ==
    /\ dpc = "exact"
    /\ Len(data) = 3
    /\ Canon(data[1]) # <<>>
    /\ data[2] # data[3]
    /\ Canon(data[2]) = <<>>
    /\ Canon(data[3]) = <<>>
    /\ exact.duplicates = {3}
    /\ exact.deduplicated = <<data[1], data[2]>>

\* t can be obtained from s by deleting elements: the elements of t occur in
\* s in the same relative order
RECURSIVE IsSubsequence(_, _)
IsSubsequence(t, s) ==
    IF t = <<>> THEN TRUE
    ELSE IF s = <<>> THEN FALSE
    ELSE IF Head(t) = Head(s) THEN IsSubsequence(Tail(t), Tail(s))
    ELSE IsSubsequence(t, Tail(s))

\* C11 (as stated): for every input list deduplicate returns a result whose
\* 'dataset' is an order-preserving subsequence of the input (records
\* unmodified) and whose final_size is the length of that list and equals
\* original_size - exact_duplicates - near_duplicates.
C11_OrderPreservingSubsequence ==
    (dpc \in {"done", "raised"}) =>
        /\ result.kind = "ret"
        /\ IsSubsequence(result.dataset, data)
        /\ result.final_size = Len(result.dataset)
        /\ result.original_size = Len(data)
        /\ result.final_size =
             result.original_size - result.exact_duplicates - result.near_duplicates

\* C12 (as stated, for calls in which the candidate finishes in time): every
\* call of run_test on the followed triple returns the result vector that the
\* first call on that triple returned, whatever calls were made in between.
C12_SameTripleSameResults ==
    (pc = "rt_ret" /\ Followed /\ firstRes # NoRet) =>
        (ret.kind = "ret" /\ ret.results = firstRes.results)

\* the quotients a and b denote the same number
SameNumber(a, b) == a[1] * b[2] = b[1] * a[2]

\* C13 (as stated): the report of compute_accuracy counts the graded items as
\* total and the items judged correct as correct, and its overall accuracy is
\* the number correct / total (0.70 for 7 of 10).
C13_AccuracyIsCorrectOverTotal ==
    (pc = "done") =>
        /\ report.total_questions = Len(records)
        /\ report.correct_answers = Corrects(records)
        /\ (report.total_questions > 0) =>
             SameNumber(report.accuracy,
                        Quotient(report.correct_answers, report.total_questions))

\* C14 (as stated, for generations that hold the "</think>" marker): for a
\* problem whose starter_code is a function-signature header and a generation
\* with a fenced block that correctly defines that function, run_test returns
\* one True per test case and metadata holding 'execution time'.
C14_EndToEndCallBased ==
    (pc = "rt_ret" /\ tracked.header # <<>> /\ prob.think) =>
        /\ ret.kind = "ret"
        /\ Len(ret.results) = prob.ntests
        /\ AllPass(ret.results)
        /\ ret.meta = TimeMeta

\* the well-formed lines of a file, in order, each with its position
Loaded(file) ==
    LET F[i \in 0..Len(file)] ==
            IF i = 0 THEN <<>>
            ELSE IF file[i].kind = "json"
              THEN Append(F[i - 1], [id |-> file[i].id, pos |-> i])
              ELSE F[i - 1]
    IN  F[Len(file)]

\* C15 (as stated): a malformed line in the problems file or in a generation
\* file never makes combine raise; it is skipped, and every well-formed line
\* before and after it is loaded.
C15_MalformedLinesSkipped ==
    /\ cpc # "raised"
    /\ (cpc \in {"generations", "join", "done"}) =>
          questions = [i \in 1..Len(Loaded(qfile)) |->
                          [question_id |-> Loaded(qfile)[i].id]]
    /\ (cpc \in {"join", "done"}) =>
          /\ generations = [i \in 1..Len(Loaded(gfile)) |->
                               [task_id |-> Loaded(gfile)[i].id,
                                generation |-> Loaded(gfile)[i].pos]]
          /\ warned = {i \in 1..Len(gfile) : gfile[i].kind = "bad"}

\* C16 (as stated): every application of reliability_guard, with or without
\* a byte budget, completes without error; once applied, the entry points
\* stay disabled and the blocked modules stay blocked.
C16_GuardIdempotent ==
    /\ ~guard.raised
    /\ (guard.disabled # {}) =>
          (guard.disabled = EntryPoints /\ guard.blocked = BlockedModules)

\* the four ways in which a return value matches an expected output
MatchesExpected(prediction, gt_out) ==
    LET p == IF prediction.t = "tuple" THEN PyList(prediction.v) ELSE prediction
        direct == p.t # "array" /\ PyEq(p, gt_out)
        json == Serializable(p) /\ Serializable(gt_out) /\ JsonDumps(p) = JsonDumps(gt_out)
        scalar == /\ ToFloat(p).ok
                  /\ ToFloat(gt_out).ok
                  /\ AllClose(ToFloat(p).val, ToFloat(gt_out).val)
        elementwise ==
            /\ p.t = "list"
            /\ Sized(gt_out)
            /\ Len(p.v) = Len(gt_out.v)
            /\ \A i \in 1..Len(p.v) :
                  /\ ToFloat(Item(p, i)).ok
                  /\ ToFloat(Item(gt_out, i)).ok
                  /\ AllClose(ToFloat(Item(p, i)).val, ToFloat(Item(gt_out, i)).val)
    IN  direct \/ json \/ scalar \/ elementwise

\* C17: in call-based mode a test case passes if and only if the return value
\* (a tuple taken as a list) matches the expected output by direct equality,
\* by equal JSON serialization, by numeric closeness as scalars, or, for a
\* list of the same length, by element-wise numeric closeness in order; the
\* tuple (1, 2) passes against [1, 2], and [1, 2, 3] fails against [1, 2, 4].
C17_EquivalenceCascade ==
    (pc = "rt_ret" /\ tracked.kind = "cascade") =>
        LET io == tracked.io[1]
        IN  /\ ret.kind = "ret"
            /\ (ret.results = <<PASS>>) <=> MatchesExpected(io.prediction, io.gt_out)
            /\ (/\ io.prediction = PyTuple(<<PyInt(1), PyInt(2)>>)
                /\ io.gt_out = PyList(<<PyInt(1), PyInt(2)>>)) => ret.results = <<PASS>>
            /\ (/\ io.prediction = PyList(<<PyInt(1), PyInt(2), PyInt(3)>>)
                /\ io.gt_out = PyList(<<PyInt(1), PyInt(2), PyInt(4)>>)) =>
                  (ret.results = <<FAIL>> /\ ret.meta = WAMeta)

\* run_test has returned from grading the tuple (1, 2) against [1, 2]
C17_Witness ==
    /\ pc = "rt_ret"
    /\ tracked.kind = "cascade"
    /\ tracked.io[1].prediction = PyTuple(<<PyInt(1), PyInt(2)>>)
    /\ tracked.io[1].gt_out = PyList(<<PyInt(1), PyInt(2)>>)
    /\ ret.results = <<PASS>>

\* the number of lines of a text once leading and trailing blanks are cut
LineCount(text) ==
    Cardinality({i \in 1..Len(Strip(text)) : Strip(text)[i] = "\n"}) + 1

\* the line counts of output and expected text differ on test case j (0-based)
Mismatched(j) ==
    LineCount(tracked.io[j + 1].prediction) # LineCount(tracked.io[j + 1].gt_out)

\* C18: in stdin-based mode, when the trimmed captured output and the trimmed
\* expected output of a test case have different numbers of lines, the test
\* case is recorded as -2 without any per-line or numeric comparison, and no
\* later test case of the problem is run.
C18_LineCountMismatch ==
    (tracked.kind = "stdio" /\ prob = tracked.prob) =>
        /\ \A j \in ran : Mismatched(j) => k = j
        /\ (pc = "rt_ret" /\ k \in ran /\ Mismatched(k)) =>
              /\ ret.kind = "ret"
              /\ ret.results = [i \in 1..k |-> PASS] \o <<WRONG_ANSWER>>
              /\ ret.meta = WAMeta
              /\ StdioCompare(tracked.io[k + 1].prediction,
                              tracked.io[k + 1].gt_out).compared = 0

\* run_test has returned from a problem with several test cases whose first
\* output has one line more than expected
C18_Witness ==
    /\ pc = "rt_ret"
    /\ tracked.kind = "stdio"
    /\ prob.ntests > 1
    /\ tracked.io[1].prediction = <<"4", "\n", "5", "\n", "6", "\n">>
    /\ tracked.io[1].gt_out = <<"4", "\n", "5", "\n">>
    /\ ran = {0}
    /\ ret.results = <<WRONG_ANSWER>>

\* the identifiers of the problems that were loaded
LoadedIds == {Loaded(qfile)[i].id : i \in 1..Len(Loaded(qfile))}

\* one task per loaded generation whose identifier names a loaded problem,
\* in the order of the generations, each with the text of its generation
ExpectedTasks ==
    LET gens == Loaded(gfile)
        T[i \in 0..Len(gens)] ==
            IF i = 0 THEN <<>>
            ELSE IF gens[i].id \in LoadedIds
              THEN Append(T[i - 1], [question_id |-> gens[i].id, generation |-> gens[i].pos])
              ELSE T[i - 1]
    IN  T[Len(gens)]

\* C19: combine returns exactly one grading task per loaded generation whose
\* identifier equals the question_id of some problem, in generation order,
\* each with the text of its own generation even when generations share an
\* identifier; unmatched generations and unmatched problems yield no task.
C19_IdentifierJoin ==
    (cpc = "done") => collected = ExpectedTasks

\* combine has returned two tasks for one problem that differ in their text,
\* having met a generation without a problem and a problem without a
\* generation
C19_Witness ==
    /\ cpc = "done"
    /\ Len(collected) = 2
    /\ collected[1].question_id = collected[2].question_id
    /\ collected[1].generation # collected[2].generation
    /\ \E i \in 1..Len(generations) : generations[i].task_id \notin LoadedIds
    /\ \E q \in LoadedIds : \A i \in 1..Len(generations) : generations[i].task_id # q

\* control is outside run_test
Outside == pc \in {"loop", "rt_ret", "cc_ret", "done", "nosplit", "crashed"}

\* C20: on every exit path of run_test (all tests passed, wrong answer,
\* timeout, runtime error, compile error, no code found, orchestration error)
\* no alarm remains armed once run_test has been left, so that no timeout
\* can be delivered afterwards.
C20_AlarmCleanup ==
    Outside => alarm = "off"

\* run_test has returned a time-limit result after the alarm went off during
\* a test case
C20_Witness ==
    /\ pc = "rt_ret"
    /\ fired = "test"
    /\ ret.kind = "ret"
    /\ ret.results # <<>>
    /\ Last(ret.results) = TIME_LIMIT
    /\ alarm = "off"

\* C21: for every dataset, deduplicate_exact applied to the output of
\* deduplicate_exact removes no record and returns that output unchanged.
C21_ExactIdempotent ==
    (dpc = "again") =>
        /\ again.deduplicated = exact.deduplicated
        /\ again.duplicates = {}

\* the second application has run on the output of a first one that had
\* removed a record and kept several
C21_Witness ==
    /\ dpc = "again"
    /\ exact.duplicates # {}
    /\ Len(exact.deduplicated) >= 2
    /\ again.deduplicated = exact.deduplicated

\* C22 (as stated): every record removed by deduplicate_near has a witness
\* that survives: for each index in the returned duplicates set some record
\* of the output has a normalized text whose edit-similarity with the text of
\* the removed record is above 1 - levenshtein_threshold.
C22_RemovedHasSurvivingWitness ==
    (dpc = "done") =>
        \A d \in near.duplicates :
            \E s \in (1..Len(exact.deduplicated)) \ near.duplicates :
                Similar(Canon(exact.deduplicated[s]), texts[d])

\* the comparisons of deduplicate_near that confirmed a pair of texts of
\* equal length: <<d, o>>, d marked in the comparison with o
EqualLengthMarks == {c \in cause : Len(texts[c[1]]) = Len(texts[c[2]])}

\* C23 (as stated): when the edit-distance check confirms a pair of texts of
\* equal length, the later-indexed record is the one removed and the
\* first-seen record is in the output, for every candidate order.
C23_TieKeepsFirstSeen ==
    (dpc = "done") =>
        \A c \in EqualLengthMarks :
            /\ c[1] > c[2]
            /\ ~Survives(c[1])
            /\ Survives(c[2])

\* C23 (amended): in such a comparison the later-indexed record is the one
\* marked and removed, for every candidate order; the first-seen record is in
\* the output unless it was marked in a comparison with a third record.
C23_TieMarksLater ==
    (dpc = "done") =>
        \A c \in EqualLengthMarks :
            /\ c[1] > c[2]
            /\ ~Survives(c[1])
            /\ (~MarkedByThird(c, c[2])) => Survives(c[2])

\* a tie was broken while the query had a second candidate: the later record
\* of the tie is removed, the first-seen one is in the output
C23_Witness ==
    /\ dpc = "done"
    /\ \E c \in EqualLengthMarks :
         /\ c[1] > c[2]
         /\ ~Survives(c[1])
         /\ Survives(c[2])
         /\ Cardinality({p \in link : c[2] \in {p[1], p[2]}}) >= 2

\* C24 (as stated): run_test reports Time Limit Exceeded (-3) for a test case
\* only if the alarm went off while the candidate executed; an exception of
\* the candidate's own, whatever its type name or message, is never reported
\* as a timeout.
C24_TimeoutOnlyWhenFired ==
    (Returned /\ EndsWith(ret.results, {TIME_LIMIT})) => fired = "test"

\* ======================================================================
\* Properties of the closing part of compute_accuracy
\* ======================================================================
\* compute_accuracy has returned or raised
Ended == mpc \in {"returned", "raised"}

\* C25 (as stated): when the split manifest is absent, compute_accuracy does
\* not raise; it skips the monthly analysis and returns the overall report.
C25_AbsentManifestReturns ==
    (Ended /\ manifest = "missing") =>
        /\ mpc = "returned"
        /\ results_json.overall.total_questions = Len(recs)
        /\ results_json.monthly_results = <<>>

\* the months each named period is said to cover
FirstPeriod ==
    {"2023-05", "2023-06", "2023-07", "2023-08", "2023-09", "2023-10", "2023-11",
     "2023-12", "2024-01", "2024-02", "2024-03", "2024-04", "2024-05"}

SecondPeriod ==
    {"2024-06", "2024-07", "2024-08", "2024-09", "2024-10", "2024-11", "2024-12",
     "2025-01"}

\* the sums of the monthly entries of the months ms
RollUp(ms) ==
    LET monthly == results_json.monthly_results
        have == ms \cap DOMAIN monthly
    IN  [corrects |-> SumOver([m \in have |-> monthly[m].corrects], have),
         total |-> SumOver([m \in have |-> monthly[m].total], have)]

\* C27 (as stated): for every manifest the report carries both named
\* periods; '05/23-05/24' holds the sums of corrects and totals of the months
\* 2023-05 to 2024-05 and '06/24-01/25' those of the months 2024-06 to 2025-01.
C27_PeriodRollUps ==
    (mpc = "returned" /\ manifest = "present") =>
        LET periods == results_json.period_results
        IN  /\ DOMAIN periods = {"05/23-05/24", "06/24-01/25"}
            /\ periods["05/23-05/24"].corrects = RollUp(FirstPeriod).corrects
            /\ periods["05/23-05/24"].total = RollUp(FirstPeriod).total
            /\ periods["06/24-01/25"].corrects = RollUp(SecondPeriod).corrects
            /\ periods["06/24-01/25"].total = RollUp(SecondPeriod).total

\* C28 (as stated): every entry of monthly_results has corrects <= total,
\* also when a run holds several generations of one identifier.
C28_CorrectsWithinTotal ==
    (mpc = "returned") =>
        \A m \in DOMAIN results_json.monthly_results :
            results_json.monthly_results[m].corrects
                <= results_json.monthly_results[m].total

\* C26 (as stated): whenever the metadata returned by the grader carries an
\* error_code, the returned result list ends with that same code.
C26_LastResultIsErrorCode ==
    (Returned /\ "error_code" \in ret.meta.keys) =>
        /\ Len(ret.results) > 0
        /\ Last(ret.results) = ret.meta.code

\* C29 (as stated): deduplicate can be called again on the same instance; a
\* later call completes and returns what a fresh instance would return for
\* its dataset.  A fresh instance raises for the empty dataset only.
C29_SecondCallAsFresh ==
    (calls >= 2 /\ dpc = "raised") => data = <<>>

\* ======================================================================
\* Properties of the streams
\* ======================================================================
\* C30: once a stdin-based test case is over, on whichever path it ended,
\* sys.stdout is the stream it was before the test case, and sys.stdin and
\* builtins.open are what they were and not the replay objects; this still
\* holds when run_test has returned.
C30_StreamsRestored ==
    (prob.mode = "stdin" /\ ran # {} /\ pc # "testing") =>
        /\ streams = saved
        /\ streams.stdout # Patched.stdout
        /\ streams.stdin # Patched.stdin
        /\ streams.open # Patched.open

\* a stdin-based test case ended with the alarm going off, after an earlier
\* test case of the same run passed, and run_test has returned
C30_Witness ==
    /\ Returned
    /\ prob.mode = "stdin"
    /\ fired = "test"
    /\ EndsWith(ret.results, {TIME_LIMIT})
    /\ Len(ret.results) >= 2
    /\ streams = EnvStreams

====
